---- MODULE Spec2Model ----
(***************************************************************************)
(* KnitScript: the AST transformation and verification pipeline.           *)
(*                                                                         *)
(* AST nodes are records tagged by k (the node class).  Every pass of      *)
(* knitscript/interpreter.py and knitscript/verifier.py is an operator     *)
(* dispatching on k the way the source dispatches with singledispatch.     *)
(* A raised Python exception is the record Err(<exception class>), which   *)
(* every operator propagates from the first child that raised it.          *)
(***************************************************************************)
EXTENDS Integers, Sequences, FiniteSets, TLC

VARIABLES
    stage,   \* position inside the entry point being run
    node,    \* the AST the passes have produced so far
    prev,    \* the AST as it was before the last pass
    arg,     \* what the entry point was called with
    diags    \* diagnostics yielded by the verifier

vars == <<stage, node, prev, arg, diags>>

-----------------------------------------------------------------------------
(* Python values *)

None == 0 - 999

Err(e) == [k |-> "Error", error |-> e]

IsErr(x) == x.k = "Error"

Min(a, b) == IF a <= b THEN a ELSE b

Max(a, b) == IF a >= b THEN a ELSE b

RECURSIVE FirstErr(_)
FirstErr(seq) ==
    IF seq = <<>> THEN Err("none")
    ELSE IF IsErr(Head(seq)) THEN Head(seq) ELSE FirstErr(Tail(seq))

AnyErr(seq) == \E i \in 1..Len(seq) : IsErr(seq[i])

RECURSIVE Reversed(_)
Reversed(seq) ==
    IF seq = <<>> THEN <<>> ELSE Append(Reversed(Tail(seq)), Head(seq))

RECURSIVE Concat(_)
Concat(seqs) ==
    IF seqs = <<>> THEN <<>> ELSE Head(seqs) \o Concat(Tail(seqs))

RECURSIVE SumSeq(_)
SumSeq(seq) == IF seq = <<>> THEN 0 ELSE Head(seq) + SumSeq(Tail(seq))

-----------------------------------------------------------------------------
(* knitscript/stitch.py: the stitch catalog *)

Stitches ==
    {"CO", "BO", "K", "P", "SL", "SL_P", "SL2TOG_K", "SL2TOG_P", "PSSO",
     "YO", "KFB", "PFB", "K2TOG", "P2TOG", "SSK", "SSP"}

StitchConsumes(s) ==
    CASE s \in {"CO", "PSSO", "YO"} -> 0
      [] s \in {"BO", "K", "P", "SL", "SL_P", "KFB", "PFB"} -> 1
      [] s \in {"SL2TOG_K", "SL2TOG_P", "K2TOG", "P2TOG", "SSK", "SSP"} -> 2

StitchProduces(s) ==
    CASE s = "PSSO" -> 0 - 1
      [] s = "BO" -> 0
      [] s \in {"CO", "K", "P", "SL", "SL_P", "YO",
                "K2TOG", "P2TOG", "SSK", "SSP"} -> 1
      [] s \in {"SL2TOG_K", "SL2TOG_P", "KFB", "PFB"} -> 2

\* Stitch.reverse; "None" stands for Python's None (PSSO has no reverse).
StitchReverse(s) ==
    CASE s = "K" -> "P"
      [] s = "P" -> "K"
      [] s = "PSSO" -> "None"
      [] s = "KFB" -> "PFB"
      [] s = "PFB" -> "KFB"
      [] s = "K2TOG" -> "SSP"
      [] s = "P2TOG" -> "SSK"
      [] s = "SSK" -> "P2TOG"
      [] s = "SSP" -> "K2TOG"
      [] OTHER -> s

-----------------------------------------------------------------------------
(* knitscript/astnodes.py: sides and node constructors *)

Flip(side) == IF side = "RS" THEN "WS" ELSE "RS"

\* The i-th element (from 1) of side.alternate().
Alternate(side, i) == IF i % 2 = 1 THEN side ELSE Flip(side)

NaturalLit(n) == [k |-> "NaturalLit", value |-> n]

StitchLit(s) ==
    [k |-> "StitchLit", value |-> s,
     consumes |-> StitchConsumes(s), produces |-> StitchProduces(s)]

FixedStitchRepeat(stitches, times, consumes, produces) ==
    [k |-> "FixedStitchRepeat", stitches |-> stitches, times |-> times,
     consumes |-> consumes, produces |-> produces]

ExpandingStitchRepeat(stitches, to_last, consumes, produces) ==
    [k |-> "ExpandingStitchRepeat", stitches |-> stitches,
     to_last |-> to_last, consumes |-> consumes, produces |-> produces]

Row(stitches, side, inferred, consumes, produces) ==
    [k |-> "Row", stitches |-> stitches, side |-> side,
     inferred |-> inferred, consumes |-> consumes, produces |-> produces]

RowRepeat(rows, times, consumes, produces) ==
    [k |-> "RowRepeat", rows |-> rows, times |-> times,
     consumes |-> consumes, produces |-> produces]

Block(patterns, consumes, produces) ==
    [k |-> "Block", patterns |-> patterns,
     consumes |-> consumes, produces |-> produces]

Pattern(rows, params, env, consumes, produces) ==
    [k |-> "Pattern", rows |-> rows, params |-> params, env |-> env,
     consumes |-> consumes, produces |-> produces]

FixedBlockRepeat(block, times, consumes, produces) ==
    [k |-> "FixedBlockRepeat", block |-> block, times |-> times,
     consumes |-> consumes, produces |-> produces]

Get(name) == [k |-> "Get", name |-> name]

Call(target, args) == [k |-> "Call", target |-> target, args |-> args]

\* Pattern.env of a pattern that was never enclosed, or was merged.
NoEnv == [k |-> "NoEnv"]

Knittables ==
    {"StitchLit", "FixedStitchRepeat", "ExpandingStitchRepeat", "Row",
     "RowRepeat", "Block", "Pattern", "FixedBlockRepeat"}

-----------------------------------------------------------------------------
(* knitscript/asttools.py *)

to_fixed_repeat(n) ==
    CASE n.k = "Row" ->
            FixedStitchRepeat(n.stitches, NaturalLit(1), n.consumes, n.produces)
      [] n.k = "ExpandingStitchRepeat" ->
            FixedStitchRepeat(n.stitches, NaturalLit(1), None, None)
      [] n.k = "Pattern" ->
            RowRepeat(n.rows, NaturalLit(1), n.consumes, n.produces)
      [] OTHER -> Err("TypeError")

\* ast_map's children of a node, by class: the fields it maps over.
HasStitches(n) == n.k \in {"FixedStitchRepeat", "ExpandingStitchRepeat", "Row"}

HasRows(n) == n.k \in {"RowRepeat", "Pattern"}

-----------------------------------------------------------------------------
(* knitscript/interpreter.py: substitution and closures *)

Lookup(env, name) ==
    IF name \in DOMAIN env THEN env[name] ELSE Err("KeyError")

\* Bind with a captured name winning over a parameter of the same name.
Bind_captured_wins(env, params, args) ==
    LET names == {params[i] : i \in 1..Len(params)}
        last(x) == CHOOSE i \in 1..Len(params) :
                      /\ params[i] = x
                      /\ \A j \in 1..Len(params) : params[j] = x => j <= i
    IN  [x \in DOMAIN env \cup names |->
            IF x \in DOMAIN env THEN env[x] ELSE args[last(x)]]

\* {**env, **dict(zip(params, args))}
Bind(env, params, args) ==
    LET names == {params[i] : i \in 1..Len(params)}
        last(x) == CHOOSE i \in 1..Len(params) :
                      /\ params[i] = x
                      /\ \A j \in 1..Len(params) : params[j] = x => j <= i
    IN  [x \in DOMAIN env \cup names |->
            IF x \in names THEN args[last(x)] ELSE env[x]]

RECURSIVE substitute(_, _)

\* do_call rejecting too few arguments only: zip drops the extra ones.
do_call_truncating(call, env) ==
    LET target == IF call.target.k = "Get"
                  THEN substitute(call.target, env) ELSE call.target
        args == [i \in 1..Len(call.args) |-> substitute(call.args[i], env)]
    IN  IF IsErr(target) THEN target
        ELSE IF target.k # "Pattern" THEN Err("AssertionError")
        ELSE IF Len(target.params) > Len(call.args) THEN Err("InterpretError")
        ELSE IF target.env = NoEnv THEN Err("TypeError")
        ELSE IF AnyErr(args) THEN FirstErr(args)
        ELSE substitute([target EXCEPT !.params = <<>>],
                        Bind(target.env, target.params, args))

do_call(call, env) ==
    LET target == IF call.target.k = "Get"
                  THEN substitute(call.target, env) ELSE call.target
        args == [i \in 1..Len(call.args) |-> substitute(call.args[i], env)]
    IN  IF IsErr(target) THEN target
        ELSE IF target.k # "Pattern" THEN Err("AssertionError")
        ELSE IF Len(target.params) # Len(call.args) THEN Err("InterpretError")
        ELSE IF target.env = NoEnv THEN Err("TypeError")
        ELSE IF AnyErr(args) THEN FirstErr(args)
        ELSE substitute([target EXCEPT !.params = <<>>],
                        Bind(target.env, target.params, args))

substitute(n, env) ==
    LET sub(seq) == [i \in 1..Len(seq) |-> substitute(seq[i], env)]
    IN  CASE n.k = "Get" -> Lookup(env, n.name)
          [] n.k = "Call" -> do_call(n, env)
          [] n.k = "FixedStitchRepeat" ->
                LET ss == sub(n.stitches)
                    t == substitute(n.times, env)
                IN  IF AnyErr(ss) THEN FirstErr(ss)
                    ELSE IF IsErr(t) THEN t
                    ELSE [n EXCEPT !.stitches = ss, !.times = t]
          [] n.k = "ExpandingStitchRepeat" ->
                LET ss == sub(n.stitches)
                    t == substitute(n.to_last, env)
                IN  IF AnyErr(ss) THEN FirstErr(ss)
                    ELSE IF IsErr(t) THEN t
                    ELSE [n EXCEPT !.stitches = ss, !.to_last = t]
          [] n.k = "Row" ->
                LET ss == sub(n.stitches)
                IN  IF AnyErr(ss) THEN FirstErr(ss)
                    ELSE [n EXCEPT !.stitches = ss]
          [] n.k = "RowRepeat" ->
                LET rs == sub(n.rows)
                    t == substitute(n.times, env)
                IN  IF AnyErr(rs) THEN FirstErr(rs)
                    ELSE IF IsErr(t) THEN t
                    ELSE [n EXCEPT !.rows = rs, !.times = t]
          [] n.k = "Pattern" ->
                LET rs == sub(n.rows)
                IN  IF AnyErr(rs) THEN FirstErr(rs)
                    ELSE [n EXCEPT !.rows = rs]
          [] n.k = "Block" ->
                LET ps == sub(n.patterns)
                IN  IF AnyErr(ps) THEN FirstErr(ps)
                    ELSE [n EXCEPT !.patterns = ps]
          [] n.k = "FixedBlockRepeat" ->
                LET b == substitute(n.block, env)
                    t == substitute(n.times, env)
                IN  IF IsErr(b) THEN b
                    ELSE IF IsErr(t) THEN t
                    ELSE [n EXCEPT !.block = b, !.times = t]
          [] OTHER -> n

RECURSIVE enclose(_, _)
enclose(n, env) ==
    LET enc(seq) == [i \in 1..Len(seq) |-> enclose(seq[i], env)]
    IN  CASE n.k = "Pattern" -> [n EXCEPT !.env = env]
          [] HasStitches(n) -> [n EXCEPT !.stitches = enc(n.stitches)]
          [] n.k = "RowRepeat" -> [n EXCEPT !.rows = enc(n.rows)]
          [] n.k = "Block" -> [n EXCEPT !.patterns = enc(n.patterns)]
          [] n.k = "FixedBlockRepeat" ->
                [n EXCEPT !.block = enclose(n.block, env)]
          [] n.k = "Call" ->
                [n EXCEPT !.target = enclose(n.target, env),
                          !.args = enc(n.args)]
          [] OTHER -> n

-----------------------------------------------------------------------------
(* knitscript/interpreter.py: side inference *)

RECURSIVE starts_with_cast_ons(_, _)

RECURSIVE reduce_cast_ons(_, _)
reduce_cast_ons(seq, acc) ==
    IF seq = <<>> THEN acc
    ELSE reduce_cast_ons(Tail(seq), starts_with_cast_ons(Head(seq), acc))

starts_with_cast_ons(n, acc) ==
    CASE n.k \in {"Pattern", "RowRepeat"} ->
            starts_with_cast_ons(n.rows[1], acc)
      [] n.k = "StitchLit" -> acc /\ n.value = "CO"
      [] HasStitches(n) -> reduce_cast_ons(n.stitches, acc)
      [] n.k = "Block" -> reduce_cast_ons(n.patterns, acc)
      [] n.k = "FixedBlockRepeat" -> starts_with_cast_ons(n.block, acc)
      [] OTHER -> acc

RECURSIVE infer_sides(_, _)

\* _infer_sides giving every row the side of its position.
infer_sides_overwriting(n, side) ==
    LET each(seq, first) ==
            [i \in 1..Len(seq) |-> infer_sides(seq[i], Alternate(first, i))]
    IN  CASE n.k = "Pattern" ->
                LET rs == each(n.rows,
                               IF starts_with_cast_ons(n, TRUE)
                               THEN "WS" ELSE "RS")
                IN  IF AnyErr(rs) THEN FirstErr(rs)
                    ELSE [n EXCEPT !.rows = rs]
          [] n.k = "Block" ->
                LET ps == each(n.patterns, side)
                IN  IF AnyErr(ps) THEN FirstErr(ps)
                    ELSE [n EXCEPT !.patterns = ps]
          [] n.k = "FixedBlockRepeat" ->
                LET b == infer_sides(n.block, side)
                IN  IF IsErr(b) THEN b ELSE [n EXCEPT !.block = b]
          [] n.k = "RowRepeat" ->
                LET rs == each(n.rows, side)
                IN  IF AnyErr(rs) THEN FirstErr(rs)
                    ELSE [n EXCEPT !.rows = rs]
          [] n.k = "Row" ->
                [n EXCEPT !.side = side, !.inferred = TRUE]
          [] OTHER -> Err("TypeError")

infer_sides(n, side) ==
    LET each(seq, first) ==
            [i \in 1..Len(seq) |-> infer_sides(seq[i], Alternate(first, i))]
    IN  CASE n.k = "Pattern" ->
                LET rs == each(n.rows,
                               IF starts_with_cast_ons(n, TRUE)
                               THEN "WS" ELSE "RS")
                IN  IF AnyErr(rs) THEN FirstErr(rs)
                    ELSE [n EXCEPT !.rows = rs]
          [] n.k = "Block" ->
                LET ps == each(n.patterns, side)
                IN  IF AnyErr(ps) THEN FirstErr(ps)
                    ELSE [n EXCEPT !.patterns = ps]
          [] n.k = "FixedBlockRepeat" ->
                LET b == infer_sides(n.block, side)
                IN  IF IsErr(b) THEN b ELSE [n EXCEPT !.block = b]
          [] n.k = "RowRepeat" ->
                LET rs == each(n.rows, side)
                IN  IF AnyErr(rs) THEN FirstErr(rs)
                    ELSE [n EXCEPT !.rows = rs]
          [] n.k = "Row" ->
                IF n.side = "None" \/ n.inferred
                THEN [n EXCEPT !.side = side, !.inferred = TRUE]
                ELSE n
          [] OTHER -> Err("TypeError")

-----------------------------------------------------------------------------
(* knitscript/interpreter.py: counting rows and stitches *)

RECURSIVE count_rows(_)
count_rows(n) ==
    CASE n.k = "Row" -> 1
      [] n.k = "RowRepeat" ->
            SumSeq([i \in 1..Len(n.rows) |-> count_rows(n.rows[i])])
                * n.times.value
      [] n.k = "Pattern" -> count_rows(to_fixed_repeat(n))
      [] n.k = "Block" ->
            LET counts == {count_rows(n.patterns[i]) : i \in 1..Len(n.patterns)}
            IN  CHOOSE m \in counts : \A c \in counts : c <= m
      [] n.k = "FixedBlockRepeat" -> count_rows(n.block)

RECURSIVE infer_counts(_, _)

\* The loop of infer_counts over the stitches of a fixed stitch repeat.
RECURSIVE infer_stitches(_, _, _)
infer_stitches(stitches, available, acc) ==
    IF stitches = <<>> THEN acc
    ELSE LET stitch == infer_counts(Head(stitches),
                                    IF available # None
                                    THEN available - acc.consumes ELSE None)
         IN  IF IsErr(stitch) THEN stitch
             ELSE infer_stitches(
                    Tail(stitches), available,
                    [k |-> "Acc",
                     counted |-> Append(acc.counted, stitch),
                     consumes |-> acc.consumes + stitch.consumes,
                     produces |-> acc.produces + stitch.produces])

\* The two nested loops of infer_counts over a row repeat: step j of total.
RECURSIVE infer_rows(_, _, _, _, _)

\* The loops of infer_counts over a row repeat, stopping after one iteration.
RECURSIVE infer_rows_once(_, _, _, _, _)
infer_rows_once(rows, j, total, available, counted) ==
    IF j > Len(rows)
    THEN [k |-> "Acc", counted |-> counted, available |-> available]
    ELSE LET row == infer_counts(rows[j], available)
         IN  IF IsErr(row) THEN row
             ELSE infer_rows_once(rows, j + 1, total, row.produces,
                                  Append(counted, row))

infer_rows(rows, j, total, available, counted) ==
    IF j > total
    THEN [k |-> "Acc", counted |-> counted, available |-> available]
    ELSE LET row == infer_counts(rows[((j - 1) % Len(rows)) + 1], available)
         IN  IF IsErr(row) THEN row
             ELSE infer_rows(rows, j + 1, total, row.produces,
                             IF Len(counted) < Len(rows)
                             THEN Append(counted, row) ELSE counted)

infer_counts(n, available) ==
    CASE n.k = "FixedStitchRepeat" ->
            LET r == infer_stitches(
                        n.stitches, available,
                        [k |-> "Acc", counted |-> <<>>,
                         consumes |-> 0, produces |-> 0])
            IN  IF IsErr(r) THEN r
                ELSE [n EXCEPT !.stitches = r.counted,
                               !.consumes = r.consumes * n.times.value,
                               !.produces = r.produces * n.times.value]
      [] n.k = "ExpandingStitchRepeat" ->
            IF available = None THEN Err("InterpretError")
            ELSE LET fixed == infer_counts(to_fixed_repeat(n),
                                           available - n.to_last.value)
                 IN  IF IsErr(fixed) THEN fixed
                     ELSE IF fixed.consumes = 0 THEN Err("ZeroDivisionError")
                     ELSE LET times == (available - n.to_last.value)
                                          \div fixed.consumes
                          IN  [n EXCEPT !.stitches = fixed.stitches,
                                        !.consumes = fixed.consumes * times,
                                        !.produces = fixed.produces * times]
      [] n.k = "Row" ->
            LET counted == infer_counts(to_fixed_repeat(n), available)
            IN  IF IsErr(counted) THEN counted
                ELSE [n EXCEPT !.stitches = counted.stitches,
                               !.consumes = counted.consumes,
                               !.produces = counted.produces]
      [] n.k = "RowRepeat" ->
            LET r == infer_rows(n.rows, 1,
                                Max(1, n.times.value) * Len(n.rows),
                                available, <<>>)
            IN  IF IsErr(r) THEN r
                ELSE IF r.counted = <<>> THEN Err("IndexError")
                ELSE [n EXCEPT !.rows = r.counted,
                               !.consumes = r.counted[1].consumes,
                               !.produces = r.available]
      [] n.k = "Block" ->
            LET counted ==
                    IF Len(n.patterns) = 1
                    THEN <<infer_counts(n.patterns[1], available)>>
                    ELSE [i \in 1..Len(n.patterns) |->
                            infer_counts(n.patterns[i], None)]
            IN  IF AnyErr(counted) THEN FirstErr(counted)
                ELSE [n EXCEPT
                        !.patterns = counted,
                        !.consumes = SumSeq([i \in 1..Len(counted) |->
                                                counted[i].consumes]),
                        !.produces = SumSeq([i \in 1..Len(counted) |->
                                                counted[i].produces])]
      [] n.k = "Pattern" ->
            LET counted == infer_counts(to_fixed_repeat(n), available)
            IN  IF IsErr(counted) THEN counted
                ELSE [n EXCEPT !.rows = counted.rows,
                               !.consumes = counted.consumes,
                               !.produces = counted.produces]
      [] n.k = "FixedBlockRepeat" ->
            LET counted == infer_counts(n.block, available)
            IN  IF IsErr(counted) THEN counted
                ELSE [n EXCEPT !.block = counted,
                               !.consumes = counted.consumes * n.times.value,
                               !.produces = counted.produces * n.times.value]
      [] OTHER -> n

-----------------------------------------------------------------------------
(* knitscript/interpreter.py: filling a box *)

fill(pattern, width, height) ==
    LET counted == infer_counts(pattern, None)
    IN  IF IsErr(counted) THEN counted
        ELSE IF counted.rows = <<>> THEN Err("ValueError")
        ELSE
        LET widths == {counted.rows[i].consumes : i \in 1..Len(counted.rows)}
            stitches == CHOOSE m \in widths : \A c \in widths : c <= m
            rows == count_rows(counted)
        IN  IF stitches = 0 THEN Err("ZeroDivisionError")
            ELSE IF width % stitches # 0 \/ width < stitches
            THEN Err("InterpretError")
            ELSE IF rows = 0 THEN Err("ZeroDivisionError")
            ELSE IF height % rows # 0 \/ height < rows
            THEN Err("InterpretError")
            ELSE
            LET n == width \div stitches
                m == height \div rows
                block == Block(<<counted>>, counted.consumes, counted.produces)
                across == FixedBlockRepeat(block, NaturalLit(n),
                                           counted.consumes * n,
                                           counted.produces * n)
                down == RowRepeat(<<across>>, NaturalLit(m),
                                  counted.consumes * n, counted.produces * n)
            IN  [counted EXCEPT !.rows = <<down>>,
                                !.consumes = counted.consumes * n,
                                !.produces = counted.produces * n]

-----------------------------------------------------------------------------
(* knitscript/interpreter.py: reversal *)

\* _reverse of a StitchLit leaving a stitch without reverse as it is.
reverse_stitch_keep(stitch) ==
    IF StitchReverse(stitch.value) # "None"
    THEN [stitch EXCEPT !.value = StitchReverse(stitch.value)]
    ELSE stitch

\* The reverse of a StitchLit; PSSO has no reverse.
reverse_stitch(stitch) ==
    IF StitchReverse(stitch.value) # "None"
    THEN [stitch EXCEPT !.value = StitchReverse(stitch.value)]
    ELSE Err("InterpretError")

\* before_acc counting the stitch itself among those made before it.
before_acc_inclusive(stitches, before, i) ==
    before + SumSeq([j \in 1..i |-> stitches[j].consumes])

\* before_acc counting the stitches that come before the stitch once the
\* order is reversed.
before_acc_after_reversal(stitches, before, i) ==
    before + SumSeq([j \in 1..(Len(stitches) - i) |-> stitches[i + j].consumes])

\* accumulate(chain([before], consumes of stitches[:-1])), 1-based.
before_acc(stitches, before, i) ==
    before + SumSeq([j \in 1..(i - 1) |-> stitches[j].consumes])

RECURSIVE reverse(_, _)
reverse(n, before) ==
    CASE n.k = "FixedStitchRepeat" ->
            LET len == Len(n.stitches)
                ss == [i \in 1..len |->
                        reverse(n.stitches[len + 1 - i],
                                before_acc(n.stitches, before, len + 1 - i))]
            IN  IF AnyErr(ss) THEN FirstErr(ss)
                ELSE [n EXCEPT !.stitches = ss]
      [] n.k = "StitchLit" -> reverse_stitch(n)
      [] n.k = "ExpandingStitchRepeat" ->
            LET fixed == reverse(to_fixed_repeat(n), before)
            IN  IF IsErr(fixed) THEN fixed
                ELSE [n EXCEPT !.stitches = fixed.stitches,
                               !.to_last = NaturalLit(before)]
      [] n.k = "Row" ->
            LET fixed == reverse(to_fixed_repeat(n), before)
            IN  IF IsErr(fixed) THEN fixed
                ELSE [n EXCEPT !.stitches = fixed.stitches,
                               !.side = IF n.side # "None"
                                        THEN Flip(n.side) ELSE "None"]
      [] OTHER -> Err("TypeError")

-----------------------------------------------------------------------------
(* knitscript/interpreter.py: helpers of flatten and merge *)

RECURSIVE increase_expanding_repeats(_, _)

\* _increase_expanding_repeats reaching only the expanding repeats that are
\* items of the row itself.
increase_expanding_repeats_shallow(n, m) ==
    LET inc(seq) ==
            [i \in 1..Len(seq) |-> increase_expanding_repeats(seq[i], m)]
    IN  CASE n.k = "ExpandingStitchRepeat" ->
                [n EXCEPT !.to_last = NaturalLit(n.to_last.value + m)]
          [] n.k = "Row" -> [n EXCEPT !.stitches = inc(n.stitches)]
          [] OTHER -> n

increase_expanding_repeats(n, m) ==
    LET inc(seq) ==
            [i \in 1..Len(seq) |-> increase_expanding_repeats(seq[i], m)]
    IN  CASE n.k = "ExpandingStitchRepeat" ->
                [n EXCEPT !.stitches = inc(n.stitches),
                          !.to_last = NaturalLit(n.to_last.value + m)]
          [] n.k \in {"FixedStitchRepeat", "Row"} ->
                [n EXCEPT !.stitches = inc(n.stitches)]
          [] n.k \in {"RowRepeat", "Pattern"} -> [n EXCEPT !.rows = inc(n.rows)]
          [] n.k = "Block" -> [n EXCEPT !.patterns = inc(n.patterns)]
          [] OTHER -> n

\* The fill value of _padded_zip.
PadRow == Row(<<>>, "RS", FALSE, 0, 0)

\* zip_longest(*seqs, fillvalue=PadRow): a sequence of tuples.
padded_zip(seqs) ==
    LET lens == {Len(seqs[i]) : i \in 1..Len(seqs)}
        longest == CHOOSE m \in lens : \A l \in lens : l <= m
    IN  [j \in 1..longest |->
            [i \in 1..Len(seqs) |->
                IF j <= Len(seqs[i]) THEN seqs[i][j] ELSE PadRow]]

RECURSIVE gcd(_, _)
gcd(x, y) == IF y = 0 THEN x ELSE gcd(y, x % y)

RECURSIVE lcm(_)

\* _lcm without the division by the greatest common divisor.
lcm_product(nums) ==
    IF nums = <<>> THEN 1
    ELSE lcm(SubSeq(nums, 1, Len(nums) - 1)) * nums[Len(nums)]

lcm(nums) ==
    IF nums = <<>> THEN 1
    ELSE LET x == lcm(SubSeq(nums, 1, Len(nums) - 1))
             y == nums[Len(nums)]
         IN  (x * y) \div gcd(x, y)

RECURSIVE starting_side(_)
starting_side(n) ==
    CASE n.k = "RowRepeat" ->
            IF n.rows = <<>> THEN "IndexError" ELSE starting_side(n.rows[1])
      [] n.k = "Row" -> n.side
      [] OTHER -> "TypeError"

\* The loop of _repeat_rows once the starting side is known.
RECURSIVE repeat_rows_from(_, _, _)
repeat_rows_from(rows, side, times) ==
    IF times <= 0 THEN <<>>
    ELSE IF Len(rows) % 2 # 0
    THEN rows \o repeat_rows_from(
                    [i \in 1..Len(rows) |->
                        infer_sides(rows[i], Alternate(Flip(side), i))],
                    Flip(side), times - 1)
    ELSE rows \o repeat_rows_from(rows, side, times - 1)

\* A generator's output: the rows it yields, unless it raised (Err).
Rows(rows) == [k |-> "Rows", rows |-> rows]

repeat_rows(rows, times) ==
    IF rows = <<>> THEN Err("IndexError")
    ELSE IF starting_side(rows[1]) \in {"TypeError", "IndexError"}
    THEN Err(starting_side(rows[1]))
    ELSE IF starting_side(rows[1]) = "None" /\ times > 0 /\ Len(rows) % 2 # 0
    THEN Err("AttributeError")
    ELSE Rows(repeat_rows_from(rows, starting_side(rows[1]), times))

RECURSIVE repeat_across(_, _)
repeat_across(n, times) ==
    LET rep(seq) == [i \in 1..Len(seq) |-> repeat_across(seq[i], times)]
    IN  CASE n.k = "Row" ->
                [n EXCEPT
                    !.stitches = <<FixedStitchRepeat(
                                        n.stitches, NaturalLit(times),
                                        n.consumes * times,
                                        n.produces * times)>>,
                    !.consumes = n.consumes * times,
                    !.produces = n.produces * times]
          [] n.k \in {"FixedStitchRepeat", "ExpandingStitchRepeat"} ->
                [n EXCEPT !.stitches = rep(n.stitches)]
          [] n.k \in {"RowRepeat", "Pattern"} -> [n EXCEPT !.rows = rep(n.rows)]
          [] n.k = "Block" -> [n EXCEPT !.patterns = rep(n.patterns)]
          [] n.k = "FixedBlockRepeat" ->
                [n EXCEPT !.block = repeat_across(n.block, times)]
          [] OTHER -> n

-----------------------------------------------------------------------------
(* knitscript/interpreter.py: flatten and merge across *)

RECURSIVE flatten(_, _)
RECURSIVE merge_across(_)

\* The loop of _flatten over the flattened stitches of a fixed stitch repeat:
\* fixed stitch repeats that repeat once are un-nested.
RECURSIVE unnest_stitches(_)
unnest_stitches(stitches) ==
    IF stitches = <<>> THEN <<>>
    ELSE LET stitch == Head(stitches)
         IN  IF stitch.k = "FixedStitchRepeat" /\ stitch.times.value = 1
             THEN stitch.stitches \o unnest_stitches(Tail(stitches))
             ELSE <<stitch>> \o unnest_stitches(Tail(stitches))

\* The loop of _flatten over the flattened rows of a row repeat.
RECURSIVE splice_rows(_, _)
splice_rows(rows, unroll) ==
    IF rows = <<>> THEN Rows(<<>>)
    ELSE LET row == Head(rows)
             these ==
                IF row.k = "RowRepeat" /\ (unroll \/ row.times.value <= 1)
                THEN repeat_rows(row.rows, row.times.value)
                ELSE IF row.k = "Pattern" THEN Rows(row.rows)
                ELSE Rows(<<row>>)
             rest == splice_rows(Tail(rows), unroll)
         IN  IF IsErr(these) THEN these
             ELSE IF IsErr(rest) THEN rest
             ELSE Rows(these.rows \o rest.rows)

flatten_FixedStitchRepeat(rep, unroll) ==
    IF /\ rep.times.value # 1
       /\ Len(rep.stitches) = 1
       /\ rep.stitches[1].k = "FixedStitchRepeat"
    THEN LET first == rep.stitches[1]
             ss == [i \in 1..Len(first.stitches) |->
                        flatten(first.stitches[i], unroll)]
         IN  IF AnyErr(ss) THEN FirstErr(ss)
             ELSE [rep EXCEPT
                    !.stitches = ss,
                    !.times = NaturalLit(first.times.value * rep.times.value),
                    !.consumes = first.consumes * rep.times.value,
                    !.produces = first.produces * rep.times.value]
    ELSE LET ss == [i \in 1..Len(rep.stitches) |->
                        flatten(rep.stitches[i], unroll)]
         IN  IF AnyErr(ss) THEN FirstErr(ss)
             ELSE [rep EXCEPT !.stitches = unnest_stitches(ss)]

\* _flatten of a row repeat that unrolls every row repeat it meets.
flatten_RowRepeat_unrolling(rep, unroll) ==
    LET rs == [i \in 1..Len(rep.rows) |-> flatten(rep.rows[i], unroll)]
    IN  IF AnyErr(rs) THEN FirstErr(rs)
        ELSE LET spliced == splice_rows(rs, TRUE)
             IN  IF IsErr(spliced) THEN spliced
                 ELSE [rep EXCEPT !.rows = spliced.rows]

flatten_RowRepeat(rep, unroll) ==
    LET rs == [i \in 1..Len(rep.rows) |-> flatten(rep.rows[i], unroll)]
    IN  IF AnyErr(rs) THEN FirstErr(rs)
        ELSE LET spliced == splice_rows(rs, unroll)
             IN  IF IsErr(spliced) THEN spliced
                 ELSE [rep EXCEPT !.rows = spliced.rows]

\* _flatten unrolling every sibling of a block.
flatten_unrolling_siblings(n, unroll) ==
    CASE n.k = "FixedStitchRepeat" -> flatten_FixedStitchRepeat(n, unroll)
      [] n.k = "Row" ->
            LET flattened == flatten(to_fixed_repeat(n), unroll)
            IN  IF IsErr(flattened) THEN flattened
                ELSE [n EXCEPT !.stitches = flattened.stitches]
      [] n.k = "ExpandingStitchRepeat" ->
            LET ss == [i \in 1..Len(n.stitches) |->
                        flatten(n.stitches[i], unroll)]
            IN  IF AnyErr(ss) THEN FirstErr(ss)
                ELSE [n EXCEPT !.stitches = ss]
      [] n.k = "RowRepeat" -> flatten_RowRepeat(n, unroll)
      [] n.k = "Pattern" ->
            LET flattened == flatten(to_fixed_repeat(n), unroll)
            IN  IF IsErr(flattened) THEN flattened
                ELSE [n EXCEPT !.rows = flattened.rows]
      [] n.k = "Block" ->
            LET ps == [i \in 1..Len(n.patterns) |->
                        flatten(n.patterns[i], TRUE)]
            IN  IF AnyErr(ps) THEN FirstErr(ps) ELSE merge_across(ps)
      [] n.k = "FixedBlockRepeat" ->
            LET inner == flatten(n.block, unroll)
                pattern == IF IsErr(inner) THEN inner
                           ELSE flatten(repeat_across(inner, n.times.value),
                                        unroll)
            IN  IF IsErr(pattern) THEN pattern
                ELSE [pattern EXCEPT
                        !.consumes = pattern.consumes * n.times.value,
                        !.produces = pattern.produces * n.times.value]
      [] OTHER -> n

flatten(n, unroll) ==
    CASE n.k = "FixedStitchRepeat" -> flatten_FixedStitchRepeat(n, unroll)
      [] n.k = "Row" ->
            LET flattened == flatten(to_fixed_repeat(n), unroll)
            IN  IF IsErr(flattened) THEN flattened
                ELSE [n EXCEPT !.stitches = flattened.stitches]
      [] n.k = "ExpandingStitchRepeat" ->
            LET ss == [i \in 1..Len(n.stitches) |->
                        flatten(n.stitches[i], unroll)]
            IN  IF AnyErr(ss) THEN FirstErr(ss)
                ELSE [n EXCEPT !.stitches = ss]
      [] n.k = "RowRepeat" -> flatten_RowRepeat(n, unroll)
      [] n.k = "Pattern" ->
            LET flattened == flatten(to_fixed_repeat(n), unroll)
            IN  IF IsErr(flattened) THEN flattened
                ELSE [n EXCEPT !.rows = flattened.rows]
      [] n.k = "Block" ->
            LET ps == [i \in 1..Len(n.patterns) |->
                        flatten(n.patterns[i], unroll)]
            IN  IF AnyErr(ps) THEN FirstErr(ps) ELSE merge_across(ps)
      [] n.k = "FixedBlockRepeat" ->
            LET inner == flatten(n.block, unroll)
                pattern == IF IsErr(inner) THEN inner
                           ELSE flatten(repeat_across(inner, n.times.value),
                                        unroll)
            IN  IF IsErr(pattern) THEN pattern
                ELSE [pattern EXCEPT
                        !.consumes = pattern.consumes * n.times.value,
                        !.produces = pattern.produces * n.times.value]
      [] OTHER -> n

\* _merge_across of rows reading the siblings left to right on every side.
merge_across_Row_in_order(given) ==
    IF \E i \in 1..Len(given) : given[i].k # "Row" THEN Err("AttributeError")
    ELSE
    LET side == given[1].side
        ordered == given
        rows == [i \in 1..Len(ordered) |->
                    IF ordered[i].side = side THEN ordered[i]
                    ELSE reverse(ordered[i], 0)]
    IN  IF AnyErr(rows) THEN FirstErr(rows)
        ELSE
        LET after(i) == SumSeq([j \in 1..(Len(rows) - i) |->
                                    rows[i + j].consumes])
            raised == [i \in 1..Len(rows) |->
                        increase_expanding_repeats(rows[i], after(i))]
        IN  Row(Concat([i \in 1..Len(raised) |-> raised[i].stitches]),
                side, raised[1].inferred,
                SumSeq([i \in 1..Len(raised) |-> raised[i].consumes]),
                SumSeq([i \in 1..Len(raised) |-> raised[i].produces]))

merge_across_Row(given) ==
    IF \E i \in 1..Len(given) : given[i].k # "Row" THEN Err("AttributeError")
    ELSE
    LET side == given[1].side
        ordered == IF side = "RS" THEN Reversed(given) ELSE given
        rows == [i \in 1..Len(ordered) |->
                    IF ordered[i].side = side THEN ordered[i]
                    ELSE reverse(ordered[i], 0)]
    IN  IF AnyErr(rows) THEN FirstErr(rows)
        ELSE
        LET after(i) == SumSeq([j \in 1..(Len(rows) - i) |->
                                    rows[i + j].consumes])
            raised == [i \in 1..Len(rows) |->
                        increase_expanding_repeats(rows[i], after(i))]
        IN  Row(Concat([i \in 1..Len(raised) |-> raised[i].stitches]),
                side, raised[1].inferred,
                SumSeq([i \in 1..Len(raised) |-> raised[i].consumes]),
                SumSeq([i \in 1..Len(raised) |-> raised[i].produces]))

\* starmap(_merge_across, tuples), then the row repeat built from the rows.
merge_tuples(tuples, times) ==
    LET rows == [j \in 1..Len(tuples) |-> merge_across(tuples[j])]
    IN  IF AnyErr(rows) THEN FirstErr(rows)
        ELSE IF rows = <<>> THEN Err("IndexError")
        ELSE RowRepeat(rows, NaturalLit(times),
                       rows[1].consumes, rows[Len(rows)].produces)

merge_across_RowRepeat(reps) ==
    IF \E i \in 1..Len(reps) : reps[i].k # "RowRepeat"
    THEN Err("AttributeError")
    ELSE
    LET aligned == padded_zip([i \in 1..Len(reps) |-> reps[i].rows])
        same_type(item) == \A i \in 1..Len(item) : item[i].k = item[1].k
    IN  IF ~(\A j \in 1..Len(aligned) : same_type(aligned[j]))
        THEN \* a row beside a row repeat: unroll every row repeat
             LET unrolled == [i \in 1..Len(reps) |-> flatten(reps[i], TRUE)]
             IN  IF AnyErr(unrolled) THEN FirstErr(unrolled)
                 ELSE merge_tuples(
                        padded_zip([i \in 1..Len(reps) |-> unrolled[i].rows]),
                        1)
        ELSE
        LET rows_of(rep) == SumSeq([i \in 1..Len(rep.rows) |->
                                        count_rows(rep.rows[i])])
            num_rows == lcm([i \in 1..Len(reps) |-> rows_of(reps[i])])
            expand(rep) == repeat_rows(rep.rows,
                                       Min(rep.times.value,
                                           num_rows \div rows_of(rep)))
            expanded == [i \in 1..Len(reps) |-> expand(reps[i])]
            counts == {count_rows(reps[i]) : i \in 1..Len(reps)}
            most == CHOOSE m \in counts : \A c \in counts : c <= m
        IN  IF \E i \in 1..Len(reps) : rows_of(reps[i]) = 0
            THEN Err("ZeroDivisionError")
            ELSE IF AnyErr(expanded) THEN FirstErr(expanded)
            ELSE merge_tuples(
                    padded_zip([i \in 1..Len(reps) |-> expanded[i].rows]),
                    (most + num_rows - 1) \div num_rows)

merge_across(nodes) ==
    CASE nodes[1].k = "Pattern" ->
            LET reps == [i \in 1..Len(nodes) |-> to_fixed_repeat(nodes[i])]
                rep == IF AnyErr(reps) THEN FirstErr(reps)
                       ELSE merge_across(reps)
            IN  IF IsErr(rep) THEN rep
                ELSE Pattern(rep.rows, <<>>, NoEnv,
                             rep.consumes, rep.produces)
      [] nodes[1].k = "RowRepeat" -> merge_across_RowRepeat(nodes)
      [] nodes[1].k = "Row" -> merge_across_Row(nodes)
      [] OTHER -> Err("TypeError")

-----------------------------------------------------------------------------
(* knitscript/interpreter.py: alternating sides, combining stitches *)

RECURSIVE alternate_sides(_, _)

\* The loop of _alternate_sides over the rows of a row repeat.
RECURSIVE alternate_rows(_, _)
alternate_rows(rows, side) ==
    IF rows = <<>> THEN Rows(<<>>)
    ELSE LET row == alternate_sides(Head(rows), side)
             rest == alternate_rows(
                        Tail(rows),
                        IF count_rows(Head(rows)) % 2 # 0
                        THEN Flip(side) ELSE side)
         IN  IF IsErr(row) THEN row
             ELSE IF IsErr(rest) THEN rest
             ELSE Rows(<<row>> \o rest.rows)

alternate_sides(n, side) ==
    CASE n.k = "Row" -> IF n.side = side THEN n ELSE reverse(n, 0)
      [] n.k = "RowRepeat" ->
            LET r == alternate_rows(n.rows, side)
            IN  IF IsErr(r) THEN r ELSE [n EXCEPT !.rows = r.rows]
      [] n.k = "Pattern" ->
            LET rep == alternate_sides(to_fixed_repeat(n), side)
            IN  IF IsErr(rep) THEN rep ELSE [n EXCEPT !.rows = rep.rows]
      [] n.k = "Block" ->
            LET ps == [i \in 1..Len(n.patterns) |->
                        alternate_sides(n.patterns[i], side)]
            IN  IF AnyErr(ps) THEN FirstErr(ps)
                ELSE [n EXCEPT !.patterns = ps]
      [] OTHER -> n

\* get_stitch: <<stitch, times>>, or the exception it raises.
get_stitch(n) ==
    CASE n.k = "StitchLit" -> [k |-> "Stitch", value |-> n.value, times |-> 1]
      [] n.k = "FixedStitchRepeat" ->
            IF Len(n.stitches) # 1 THEN Err("ValueError")
            ELSE IF n.stitches[1].k # "StitchLit" THEN Err("AttributeError")
            ELSE [k |-> "Stitch", value |-> n.stitches[1].value,
                  times |-> n.times.value]
      [] OTHER -> Err("TypeError")

\* combine(acc, node): acc is Rows(<<...>>) or Err.
combine(acc, n) ==
    LET current == get_stitch(n)
        last == IF acc.rows = <<>> THEN Err("IndexError")
                ELSE get_stitch(acc.rows[Len(acc.rows)])
    IN  IF current = Err("AttributeError") THEN current
        ELSE IF IsErr(current) THEN Rows(Append(acc.rows, n))
        ELSE IF last = Err("AttributeError") THEN last
        ELSE IF IsErr(last) THEN Rows(Append(acc.rows, n))
        ELSE IF current.value # last.value THEN Rows(Append(acc.rows, n))
        ELSE Rows(Append(
                SubSeq(acc.rows, 1, Len(acc.rows) - 1),
                FixedStitchRepeat(
                    <<StitchLit(current.value)>>,
                    NaturalLit(current.times + last.times),
                    StitchConsumes(current.value)
                        * (current.times + last.times),
                    StitchProduces(current.value)
                        * (current.times + last.times))))

RECURSIVE combine_stitches(_)

\* reduce(combine, map(_combine_stitches, stitches), acc)
RECURSIVE reduce_combine(_, _)
reduce_combine(stitches, acc) ==
    IF stitches = <<>> THEN acc
    ELSE LET stitch == combine_stitches(Head(stitches))
             next == IF IsErr(stitch) THEN stitch ELSE combine(acc, stitch)
         IN  IF IsErr(next) THEN next
             ELSE reduce_combine(Tail(stitches), next)

combine_stitches(n) ==
    LET each(seq) == [i \in 1..Len(seq) |-> combine_stitches(seq[i])]
    IN  CASE n.k \in {"FixedStitchRepeat", "ExpandingStitchRepeat", "Row"} ->
                LET r == reduce_combine(n.stitches, Rows(<<>>))
                IN  IF IsErr(r) THEN r ELSE [n EXCEPT !.stitches = r.rows]
          [] n.k \in {"RowRepeat", "Pattern"} ->
                LET rs == each(n.rows)
                IN  IF AnyErr(rs) THEN FirstErr(rs)
                    ELSE [n EXCEPT !.rows = rs]
          [] n.k = "Block" ->
                LET ps == each(n.patterns)
                IN  IF AnyErr(ps) THEN FirstErr(ps)
                    ELSE [n EXCEPT !.patterns = ps]
          [] OTHER -> n

\* prepare_pattern after substitution, pass by pass.
first_side(pattern) ==
    IF starts_with_cast_ons(pattern, TRUE) THEN "WS" ELSE "RS"

-----------------------------------------------------------------------------
(* knitscript/verifier.py *)

\* A KnitError: its message class and the node it is attached to.
KnitError(message, n) == [message |-> message, node |-> n]

\* What a verifier generator did: the errors it yielded, and the exception
\* that ended it ("none" when it ran to its end).
Yielded(errors, raised) == [errors |-> errors, raised |-> raised]

NoErrors == Yielded(<<>>, "none")

\* yield from a; yield from b
Then(a, b) ==
    IF a.raised # "none" THEN a
    ELSE Yielded(a.errors \o b.errors, b.raised)

\* _at_least with its comparison turned round.
at_least_reversed(expected, actual, n) ==
    IF expected < actual
    THEN Yielded(<<KnitError("too few stitches", n)>>, "none")
    ELSE NoErrors

at_least(expected, actual, n) ==
    IF expected > actual
    THEN Yielded(<<KnitError("too few stitches", n)>>, "none")
    ELSE NoErrors

\* _exactly without its check for left-over stitches.
exactly_no_left_over(expected, actual, n) == at_least(expected, actual, n)

exactly(expected, actual, n) ==
    Then(at_least(expected, actual, n),
         IF expected < actual
         THEN Yielded(<<KnitError("stitches left over", n)>>, "none")
         ELSE NoErrors)

RECURSIVE verify_counts(_, _)

\* The loop of verify_counts over the stitches of a fixed stitch repeat;
\* consumes is the sum over the stitches already visited.
RECURSIVE verify_stitches(_, _, _)
verify_stitches(stitches, available, consumes) ==
    IF stitches = <<>> THEN [out |-> NoErrors, consumes |-> consumes]
    ELSE LET here == verify_counts(Head(stitches), available - consumes)
             rest == verify_stitches(Tail(stitches), available,
                                     consumes + Head(stitches).consumes)
         IN  IF here.raised # "none"
             THEN [out |-> here, consumes |-> consumes]
             ELSE [out |-> Then(here, rest.out), consumes |-> rest.consumes]

\* The loop of verify_counts over the rows of a row repeat.
RECURSIVE verify_rows(_, _)
verify_rows(rows, available) ==
    IF rows = <<>> THEN [out |-> NoErrors, available |-> available]
    ELSE LET row == Head(rows)
             here == Then(verify_counts(row, available),
                          exactly(row.consumes, available, row))
             rest == verify_rows(Tail(rows), row.produces)
         IN  IF here.raised # "none"
             THEN [out |-> here, available |-> available]
             ELSE [out |-> Then(here, rest.out), available |-> rest.available]

verify_counts(n, available) ==
    CASE n.k = "StitchLit" -> at_least(n.consumes, available, n)
      [] n.k = "FixedStitchRepeat" ->
            LET r == verify_stitches(n.stitches, available, 0)
            IN  Then(r.out,
                     IF n.times.value > 1
                     THEN at_least(n.times.value * r.consumes, available, n)
                     ELSE NoErrors)
      [] n.k = "ExpandingStitchRepeat" ->
            Then(verify_counts(to_fixed_repeat(n),
                               available - n.to_last.value),
                 IF n.consumes = 0 THEN Yielded(<<>>, "ZeroDivisionError")
                 ELSE exactly(((available - n.to_last.value) \div n.consumes)
                                  * n.consumes,
                              available - n.to_last.value, n))
      [] n.k = "Row" -> verify_counts(to_fixed_repeat(n), available)
      [] n.k = "RowRepeat" ->
            LET r == verify_rows(n.rows, available)
            IN  Then(r.out,
                     IF n.times.value > 1
                     THEN exactly(available, r.available, n)
                     ELSE NoErrors)
      [] n.k = "Pattern" -> verify_counts(to_fixed_repeat(n), available)
      [] OTHER -> Yielded(<<>>, "TypeError")

RECURSIVE RepeatSeq(_, _)
RepeatSeq(seq, times) ==
    IF times <= 0 THEN <<>> ELSE seq \o RepeatSeq(seq, times - 1)

\* _unroll_row: Rows(<<stitch, ...>>), or Err.
RECURSIVE unroll_row(_)
unroll_row(n) ==
    LET parts == [i \in 1..Len(n.stitches) |-> unroll_row(n.stitches[i])]
        once == Concat([i \in 1..Len(parts) |-> parts[i].rows])
        unit == SumSeq([i \in 1..Len(n.stitches) |-> n.stitches[i].consumes])
    IN  CASE n.k = "StitchLit" -> Rows(<<n.value>>)
          [] n.k = "Row" ->
                IF AnyErr(parts) THEN FirstErr(parts) ELSE Rows(once)
          [] n.k = "FixedStitchRepeat" ->
                IF n.times.value <= 0 THEN Rows(<<>>)
                ELSE IF AnyErr(parts) THEN FirstErr(parts)
                ELSE Rows(RepeatSeq(once, n.times.value))
          [] n.k = "ExpandingStitchRepeat" ->
                IF unit = 0 THEN Err("ZeroDivisionError")
                ELSE IF n.consumes \div unit <= 0 THEN Rows(<<>>)
                ELSE IF AnyErr(parts) THEN FirstErr(parts)
                ELSE Rows(RepeatSeq(once, n.consumes \div unit))
          [] OTHER -> Err("TypeError")

\* _unroll_slip taking a 2-stitch slip for one SLIP marker.
unroll_slip_single(stitch) ==
    CASE stitch \in {"SL", "SL_P", "SL2TOG_K", "SL2TOG_P"} -> <<"SL">>
      [] OTHER -> <<stitch>>

unroll_slip(stitch) ==
    CASE stitch \in {"SL", "SL_P"} -> <<"SL">>
      [] stitch \in {"SL2TOG_K", "SL2TOG_P"} -> <<"SL", "SL">>
      [] OTHER -> <<stitch>>

\* The index (from 1) of the last SL in a sequence, 0 when there is none.
LastSlip(stitches) ==
    LET slips == {j \in 1..Len(stitches) : stitches[j] = "SL"}
    IN  IF slips = {} THEN 0
        ELSE CHOOSE j \in slips : \A m \in slips : m <= j

\* The loop of _verify_psso: i is Python's index into stitches, left the
\* number of iterations still to run.
RECURSIVE psso_loop(_, _, _, _)

\* The loop without its look at the stitch right before the PSSO.
psso_loop_no_adjacent(stitches, i, left, row) ==
    IF left = 0 THEN <<>>
    ELSE IF stitches[i + 1] # "PSSO"
    THEN psso_loop(stitches, i + 1, left - 1, row)
    ELSE LET behind == IF i = 0 THEN stitches[Len(stitches)] ELSE stitches[i]
             st_before == SubSeq(stitches, 1, i)
             slip == LastSlip(st_before)
             adjacent == <<>>
         IN  IF slip = 0
             THEN adjacent
                  \o <<KnitError("PSSO without SLIP", row)>>
                  \o psso_loop(stitches, i + 1, left - 1, row)
             ELSE adjacent
                  \o psso_loop(SubSeq(st_before, 1, slip - 1)
                                  \o SubSeq(st_before, slip + 1, i)
                                  \o SubSeq(stitches, i + 1, Len(stitches)),
                               i, left - 1, row)

psso_loop(stitches, i, left, row) ==
    IF left = 0 THEN <<>>
    ELSE IF stitches[i + 1] # "PSSO"
    THEN psso_loop(stitches, i + 1, left - 1, row)
    ELSE LET behind == IF i = 0 THEN stitches[Len(stitches)] ELSE stitches[i]
             st_before == SubSeq(stitches, 1, i)
             slip == LastSlip(st_before)
             adjacent ==
                IF behind = "SL"
                THEN <<KnitError("PSSO without stitch to pass over", row)>>
                ELSE <<>>
         IN  IF slip = 0
             THEN adjacent
                  \o <<KnitError("PSSO without SLIP", row)>>
                  \o psso_loop(stitches, i + 1, left - 1, row)
             ELSE adjacent
                  \o psso_loop(SubSeq(st_before, 1, slip - 1)
                                  \o SubSeq(st_before, slip + 1, i)
                                  \o SubSeq(stitches, i + 1, Len(stitches)),
                               i, left - 1, row)

RECURSIVE verify_psso(_)
RECURSIVE verify_psso_rows(_)
verify_psso_rows(rows) ==
    IF rows = <<>> THEN NoErrors
    ELSE Then(verify_psso(Head(rows)), verify_psso_rows(Tail(rows)))

verify_psso(n) ==
    CASE n.k = "Pattern" -> verify_psso(to_fixed_repeat(n))
      [] n.k = "RowRepeat" -> verify_psso_rows(n.rows)
      [] n.k = "Row" ->
            LET unrolled == unroll_row(n)
                stitches == Concat([i \in 1..Len(unrolled.rows) |->
                                        unroll_slip(unrolled.rows[i])])
            IN  IF IsErr(unrolled) THEN Yielded(<<>>, unrolled.error)
                ELSE Yielded(psso_loop(stitches, 0, Len(stitches), n), "none")
      [] OTHER -> Yielded(<<>>, "TypeError")

RECURSIVE verify_make(_)
RECURSIVE verify_make_rows(_)
verify_make_rows(rows) ==
    IF rows = <<>> THEN NoErrors
    ELSE Then(verify_make(Head(rows)), verify_make_rows(Tail(rows)))

verify_make(n) ==
    CASE n.k = "Pattern" -> verify_make(to_fixed_repeat(n))
      [] n.k = "RowRepeat" -> verify_make_rows(n.rows)
      [] n.k = "Row" ->
            LET unrolled == unroll_row(n)
            IN  IF IsErr(unrolled) THEN Yielded(<<>>, unrolled.error)
                ELSE IF unrolled.rows = <<>> THEN Yielded(<<>>, "IndexError")
                ELSE IF unrolled.rows[1] \in {"M1L", "M1R"}
                THEN Yielded(<<KnitError("Make 1 on first stitch of row", n)>>,
                             "none")
                ELSE NoErrors
      [] OTHER -> Yielded(<<>>, "TypeError")

verify_pattern(pattern) ==
    Then(verify_counts(pattern, 0),
    Then(IF pattern.consumes # 0
         THEN Yielded(<<KnitError("stitches to be cast on", pattern)>>, "none")
         ELSE NoErrors,
    Then(IF pattern.produces # 0
         THEN Yielded(<<KnitError("stitches to be bound off", pattern)>>,
                      "none")
         ELSE NoErrors,
    Then(verify_psso(pattern), verify_make(pattern)))))

-----------------------------------------------------------------------------
(* Bounds of the explored inputs *)

\* Largest number of stitches a menu pattern casts on.
MaxCast == 4

\* Largest repeat count of a menu row repeat.
MaxTimes == 2

\* Largest to_last of a menu expanding repeat.
MaxToLast == 2

\* Largest number of stitches available to a row counted on its own.
MaxAvailable == 4

\* Deepest nesting of repeats in a menu pattern.
MaxDepth == 3

\* Most parameters of a menu pattern and most arguments of a menu call.
MaxArgs == 2

\* Most items of a menu row checked for pass-overs.
MaxStitches == 4

-----------------------------------------------------------------------------
(* Patterns as loader.py hands them to prepare_pattern: no counts yet *)

EmptyEnv == [x \in {} |-> NoEnv]

RawFix(stitches, times) ==
    FixedStitchRepeat(stitches, NaturalLit(times), None, None)

RawExp(stitches, to_last) ==
    ExpandingStitchRepeat(stitches, NaturalLit(to_last), None, None)

RawRow(stitches, side) == Row(stitches, side, FALSE, None, None)

RawRowRepeat(rows, times) == RowRepeat(rows, NaturalLit(times), None, None)

RawBlock(patterns) == Block(patterns, None, None)

RawPattern(rows) == Pattern(rows, <<>>, EmptyEnv, None, None)

ToEnd(s) == RawExp(<<StitchLit(s)>>, 0)

PssoStitches == <<StitchLit("SL"), StitchLit("K"), StitchLit("PSSO")>>

CastOnRows ==
    {RawRow(<<RawFix(<<StitchLit("CO")>>, n)>>, "None") : n \in 1..MaxCast}

BodyRows ==
    {RawRow(<<RawFix(<<StitchLit("K")>>, m)>>, "None") : m \in 2..(MaxCast + 1)}
    \cup {RawRow(<<ToEnd("K")>>, "None"),
          RawRow(<<StitchLit("K"), RawExp(<<StitchLit("P")>>, 1),
                   StitchLit("K")>>, "None"),
          RawRow(<<StitchLit("K2TOG"), ToEnd("K")>>, "None"),
          RawRow(<<StitchLit("KFB"), ToEnd("K")>>, "None")}
    \cup {RawRow(PssoStitches \o <<ToEnd("K")>>, side) :
            side \in {"None", "RS", "WS"}}
    \cup {RawRow(<<RawFix(PssoStitches, 2), ToEnd("K")>>, side) :
            side \in {"RS", "WS"}}
    \cup {RawRowRepeat(rows, t) :
            rows \in {<<RawRow(<<ToEnd("K")>>, "None")>>,
                      <<RawRow(<<ToEnd("K")>>, "None"),
                        RawRow(<<ToEnd("P")>>, "None")>>,
                      <<RawRow(<<StitchLit("K2TOG"), ToEnd("K")>>, "None")>>},
            t \in 1..MaxTimes}
    \cup {RawRowRepeat(<<RawRow(<<StitchLit("KFB"), ToEnd("K")>>, "None")>>,
                        MaxTimes)}
    \cup {RawBlock(<<RawPattern(<<RawRow(<<StitchLit("K")>>, "RS")>>),
                     RawPattern(<<RawRow(stitches, side)>>)>>) :
            stitches \in {<<StitchLit("P"), StitchLit("P")>>, PssoStitches},
            side \in {"RS", "WS"}}

EndRows ==
    {RawRow(<<ToEnd("BO")>>, "None")}
    \cup {RawRow(<<RawFix(<<StitchLit("BO")>>, m)>>, "None") : m \in 1..MaxCast}

RawPatterns ==
    {RawPattern(<<co>> \o body \o end) :
        co \in CastOnRows,
        body \in {<<>>} \cup {<<b>> : b \in BodyRows}
                        \cup {<<b, c>> : b \in BodyRows, c \in BodyRows},
        end \in {<<>>} \cup {<<e>> : e \in EndRows}}

-----------------------------------------------------------------------------
(* prepare_pattern followed by verify_pattern, one step per pass.  A pass  *)
(* that raises leaves its exception in node and nothing runs after it.     *)

Init ==
    /\ stage = "raw"
    /\ node \in RawPatterns
    /\ prev = node
    /\ arg = node
    /\ diags = NoErrors

\* The pass returned result, or raised it.
Ran(result, to) ==
    /\ ~IsErr(node)
    /\ node' = result
    /\ prev' = node
    /\ stage' = IF IsErr(result) THEN stage ELSE to
    /\ UNCHANGED <<arg, diags>>

Substitute ==
    /\ stage = "raw"
    /\ Ran(substitute(node, node.env), "substituted")

InferSides ==
    /\ stage = "substituted"
    /\ Ran(infer_sides(node, "RS"), "sided")

InferCounts ==
    /\ stage = "sided"
    /\ Ran(infer_counts(node, None), "counted")

Flatten ==
    /\ stage = "counted"
    /\ Ran(flatten(node, FALSE), "flattened")

InferCountsAgain ==
    /\ stage = "flattened"
    /\ Ran(infer_counts(node, None), "recounted")

AlternateSides ==
    /\ stage = "recounted"
    /\ Ran(alternate_sides(node, first_side(node)), "alternated")

CombineStitches ==
    /\ stage = "alternated"
    /\ Ran(combine_stitches(node), "prepared")

Verify ==
    /\ stage = "prepared"
    /\ ~IsErr(node)
    /\ diags' = verify_pattern(node)
    /\ stage' = "verified"
    /\ UNCHANGED <<node, prev, arg>>

Next ==
    \/ Substitute
    \/ InferSides
    \/ InferCounts
    \/ Flatten
    \/ InferCountsAgain
    \/ AlternateSides
    \/ CombineStitches
    \/ Verify

Spec == Init /\ [][Next]_vars

-----------------------------------------------------------------------------
(* C1: conservation *)

RECURSIVE Iterated(_, _)
Iterated(rows, times) ==
    IF times <= 0 THEN <<>> ELSE rows \o Iterated(rows, times - 1)

\* The rows as they are knitted: every row repeat iterated its full times.
RECURSIVE PhysicalRows(_)
PhysicalRows(n) ==
    CASE n.k = "Row" -> <<n>>
      [] n.k = "RowRepeat" ->
            Iterated(Concat([i \in 1..Len(n.rows) |-> PhysicalRows(n.rows[i])]),
                     n.times.value)
      [] n.k = "Pattern" ->
            Concat([i \in 1..Len(n.rows) |-> PhysicalRows(n.rows[i])])

\* The stitch counter after knitting rows from counter, or -1 as soon as a
\* row does not need exactly the counter or the counter would go negative.
RECURSIVE Knit(_, _)
Knit(rows, counter) ==
    IF rows = <<>> THEN counter
    ELSE IF Head(rows).consumes # counter \/ Head(rows).produces < 0 THEN 0 - 1
    ELSE Knit(Tail(rows), Head(rows).produces)

VerifiedClean == stage = "verified" /\ diags = NoErrors

\* C1: a prepared pattern for which verify_pattern yields no diagnostic is
\* knitted row by row, each row repeat its full times, from a counter of 0
\* with every row needing exactly the counter and leaving its produces, the
\* counter never negative and 0 at the end.
Conservation == VerifiedClean => Knit(PhysicalRows(node), 0) = 0

\* A clean pattern with a row repeat knitted more than once.
ConservationWitness ==
    /\ VerifiedClean
    /\ \E i \in 1..Len(node.rows) :
          /\ node.rows[i].k = "RowRepeat"
          /\ node.rows[i].times.value > 1
          /\ Len(node.rows[i].rows) > 1

-----------------------------------------------------------------------------
(* _reverse applied to a counted row, twice *)

RowItems ==
    {StitchLit(v) : v \in {"K", "P", "SL", "K2TOG", "YO", "PSSO"}}
    \cup {RawFix(<<StitchLit("K"), StitchLit("P")>>, 2)}
    \cup {RawExp(<<StitchLit("K")>>, t) : t \in 0..MaxToLast}
    \cup {RawFix(<<StitchLit("P"), RawExp(<<StitchLit("K")>>, t)>>, 1) :
            t \in 0..MaxToLast}
    \cup {RawExp(<<RawExp(<<StitchLit("K")>>, t)>>, 0) : t \in 0..MaxToLast}

RawRows ==
    {RawRow(stitches, side) :
        stitches \in {<<a>> : a \in RowItems}
                     \cup {<<a, b>> : a \in RowItems, b \in RowItems},
        side \in {"RS", "WS", "None"}}

\* Rows as infer_counts leaves them (those it does not raise on).
CountedRows ==
    {r \in {infer_counts(raw, available) :
                raw \in RawRows, available \in 0..MaxAvailable} : ~IsErr(r)}

InitReverse ==
    /\ stage = "counted"
    /\ node \in CountedRows
    /\ prev = node
    /\ arg = node
    /\ diags = NoErrors

Reverse ==
    /\ stage \in {"counted", "reversed"}
    /\ Ran(reverse(node, 0),
           IF stage = "counted" THEN "reversed" ELSE "reversed twice")

NextReverse == Reverse

SpecReverse == InitReverse /\ [][NextReverse]_vars

RECURSIVE AllReversible(_)
AllReversible(n) ==
    IF n.k = "StitchLit" THEN StitchReverse(n.value) # "None"
    ELSE \A i \in 1..Len(n.stitches) : AllReversible(n.stitches[i])

\* Every expanding repeat of n has to_last equal to the consumes of all that
\* follows it: after, the consumes of what follows n itself.
RECURSIVE ToLastSettled(_, _)
ToLastSettled(n, after) ==
    IF n.k = "StitchLit" THEN TRUE
    ELSE /\ n.k = "ExpandingStitchRepeat" => n.to_last.value = after
         /\ \A i \in 1..Len(n.stitches) :
                ToLastSettled(
                    n.stitches[i],
                    after + SumSeq([j \in 1..(Len(n.stitches) - i) |->
                                        n.stitches[i + j].consumes]))

\* C2 as claimed: reversing twice a counted row of reversible stitches gives
\* back the row.
ReversalInvolution ==
    (stage = "reversed twice" /\ AllReversible(arg)) => node = arg

\* C2 amended: reversing twice a counted row of reversible stitches gives
\* back the row exactly when every expanding repeat's to_last is the consumes
\* of all that follows it in the row.
ReversalInvolutionSettled ==
    (stage = "reversed twice" /\ AllReversible(arg))
        => (node = arg <=> ToLastSettled(arg, 0))

\* A round trip that gives back a row whose expanding repeat is followed by
\* stitches, on a known side.
ReversalInvolutionWitness ==
    /\ stage = "reversed twice"
    /\ AllReversible(arg)
    /\ node = arg
    /\ arg.side # "None"
    /\ Len(arg.stitches) = 2
    /\ arg.stitches[1].k = "ExpandingStitchRepeat"
    /\ arg.stitches[1].to_last.value > 0
    /\ arg.stitches[1].consumes > 0

-----------------------------------------------------------------------------
(* _flatten applied to a counted pattern, twice *)

\* Fixed stitch repeats nested depth deep around one knit stitch.
RECURSIVE FixNests(_)
FixNests(depth) ==
    IF depth = 0 THEN {StitchLit("K")}
    ELSE {RawFix(<<inner>>, t) :
            inner \in FixNests(depth - 1), t \in 1..MaxTimes}

\* Row repeats nested depth deep around one row.
RECURSIVE RowNests(_)
RowNests(depth) ==
    IF depth = 0 THEN {RawRow(<<StitchLit("K"), StitchLit("P")>>, "None")}
    ELSE {RawRowRepeat(<<inner>>, t) :
            inner \in RowNests(depth - 1), t \in 1..MaxTimes}

NestedItems ==
    UNION {{RawRow(<<f>>, "None") : f \in FixNests(d)} : d \in 1..MaxDepth}
    \cup UNION {RowNests(d) : d \in 1..MaxDepth}
    \cup {RawPattern(<<r>>) : r \in RowNests(1)}
    \cup {RawRow(<<RawFix(<<StitchLit("P"), ToEnd("K")>>, 1)>>, "None")}
    \cup {RawRowRepeat(<<RawRow(<<StitchLit("K"), StitchLit("P")>>, "None"),
                         RawRowRepeat(<<RawRow(<<StitchLit("P"),
                                                 StitchLit("K")>>, "None")>>,
                                      inner)>>, outer) :
            inner \in 0..MaxTimes, outer \in 0..MaxTimes}
    \cup {RawRowRepeat(<<RawRowRepeat(<<RawRow(<<StitchLit("K"),
                                                 StitchLit("P")>>, "None")>>,
                                      0)>>, outer) :
            outer \in 1..MaxTimes}

CountedPatterns ==
    {p \in {infer_counts(infer_sides(RawPattern(rows), "RS"), None) :
                rows \in {<<a>> : a \in NestedItems}
                         \cup {<<a, b>> : a \in NestedItems, b \in NestedItems}} :
        ~IsErr(p)}

InitFlatten ==
    /\ stage = "counted"
    /\ node \in CountedPatterns
    /\ prev = node
    /\ arg = node
    /\ diags = NoErrors

FlattenOnce ==
    /\ stage \in {"counted", "flattened"}
    /\ Ran(flatten(node, FALSE),
           IF stage = "counted" THEN "flattened" ELSE "flattened twice")

FlattenUnrolled ==
    /\ stage = "counted"
    /\ Ran(flatten(node, TRUE), "unrolled")

NextFlatten == FlattenOnce \/ FlattenUnrolled

SpecFlatten == InitFlatten /\ [][NextFlatten]_vars

\* C3: flattening a flattened pattern changes nothing, also when fixed
\* stitch repeats are nested three or more deep and row repeats are nested.
FlattenIdempotent == stage = "flattened twice" => node = prev

-----------------------------------------------------------------------------
(* _flatten of a block of two sibling patterns: _merge_across *)

SiblingRows ==
    {RawRow(stitches, "None") :
        stitches \in {<<StitchLit("K")>>, PssoStitches,
                      <<RawFix(<<StitchLit("P")>>, 2)>>}}

SiblingItems ==
    SiblingRows
    \cup {RawRowRepeat(<<r>>, t) :
            r \in SiblingRows, t \in 1..(MaxTimes + 1)}
    \cup {RawRowRepeat(<<RawRow(<<StitchLit("K")>>, "None"),
                         RawRow(<<StitchLit("P")>>, "None")>>, t) :
            t \in 1..(MaxTimes + 1)}
    \cup {RawRowRepeat(<<RawRow(<<StitchLit("K")>>, "None"),
                         RawRow(<<StitchLit("P")>>, "None"),
                         RawRow(<<StitchLit("K")>>, "None")>>, t) :
            t \in 1..(MaxTimes + 1)}
    \cup {RawRowRepeat(rows, t) :
            rows \in {<<RawRow(<<StitchLit("SL")>>, "None")>>,
                      <<RawRow(<<StitchLit("SL")>>, "None"),
                        RawRow(<<StitchLit("SL")>>, "None")>>},
            t \in 1..(MaxTimes + 1)}

SiblingPatterns ==
    {RawPattern(rows) :
        rows \in {<<a>> : a \in SiblingItems}
                 \cup {<<r, a>> : r \in SiblingRows, a \in SiblingItems}}

\* Blocks as they reach _flatten: sides inferred, stitches counted.
CountedBlocks ==
    {b \in {infer_counts(infer_sides(RawBlock(<<x, y>>), "RS"), None) :
                x \in SiblingPatterns, y \in SiblingPatterns} : ~IsErr(b)}

InitMerge ==
    /\ stage = "counted"
    /\ node \in CountedBlocks
    /\ prev = node
    /\ arg = node
    /\ diags = NoErrors

MergeAcross ==
    /\ stage = "counted"
    /\ Ran(flatten(node, FALSE), "merged")

NextMerge == MergeAcross

SpecMerge == InitMerge /\ [][NextMerge]_vars

\* The two siblings row by row are on the same sides.
SameSides(a, b) ==
    LET ra == PhysicalRows(a)
        rb == PhysicalRows(b)
    IN  \A i \in 1..Min(Len(ra), Len(rb)) : ra[i].side = rb[i].side

Swapped(block) ==
    [block EXCEPT !.patterns = <<block.patterns[2], block.patterns[1]>>]

\* C4: merging two siblings that are on the same sides row by row gives as
\* many rows in either order.
MergeCountCommutes ==
    (stage = "merged" /\ SameSides(arg.patterns[1], arg.patterns[2]))
        => LET other == flatten(Swapped(arg), FALSE)
           IN  /\ ~IsErr(other)
               /\ count_rows(node) = count_rows(other)

-----------------------------------------------------------------------------
(* substitute applied to a call of a pattern *)

ParamNames == <<"n", "x", "y", "z">>

Names == {ParamNames[i] : i \in 1..(MaxArgs + 1)}

\* The environment a pattern definition captured (loader.py encloses it).
CapturedEnvs ==
    {EmptyEnv, "x" :> NaturalLit(2), ("x" :> NaturalLit(2)) @@ ("y" :> NaturalLit(3))}

\* The environment of the call, besides the name f of the called pattern.
CallerEnvs ==
    {"x" :> NaturalLit(5), "y" :> NaturalLit(6),
     ("x" :> NaturalLit(5)) @@ ("y" :> NaturalLit(6))}

\* A pattern whose one row repeats K a-named times, then P to the last b-named.
Body(a, b) ==
    <<RawRow(<<FixedStitchRepeat(<<StitchLit("K")>>, Get(a), None, None),
               ExpandingStitchRepeat(<<StitchLit("P")>>, Get(b), None, None)>>,
             "None")>>

CalledPatterns ==
    {Pattern(Body(a, b), SubSeq(ParamNames, 1, arity), env, None, None) :
        a \in Names, b \in Names, arity \in 0..MaxArgs, env \in CapturedEnvs}

CallArgs == {NaturalLit(7), Get("x"), Get("y")}

RECURSIVE ArgLists(_)
ArgLists(len) ==
    IF len = 0 THEN {<<>>}
    ELSE {Append(args, a) : args \in ArgLists(len - 1), a \in CallArgs}

InitCall ==
    /\ stage = "raw"
    /\ \E f \in CalledPatterns, caller \in CallerEnvs, len \in 0..MaxArgs :
        \E args \in ArgLists(len), target \in {f, Get("f")} :
            /\ node = Call(target, args)
            /\ arg = caller @@ ("f" :> f)
    /\ prev = node
    /\ diags = NoErrors

SubstituteCall ==
    /\ stage = "raw"
    /\ Ran(substitute(node, arg), "called")

NextCall == SubstituteCall

SpecCall == InitCall /\ [][NextCall]_vars

\* The call that was substituted, the pattern it calls and what came of it.
TheCall == prev

Target ==
    IF TheCall.target.k = "Get" THEN arg[TheCall.target.name]
    ELSE TheCall.target

Returned == stage = "called"

Finished == Returned \/ IsErr(node)

ParamSet == {Target.params[i] : i \in 1..Len(Target.params)}

BodyNames ==
    {Target.rows[1].stitches[1].times.name,
     Target.rows[1].stitches[2].to_last.name}

ArgsBound ==
    \A i \in 1..Len(TheCall.args) :
        TheCall.args[i].k = "Get" => TheCall.args[i].name \in DOMAIN arg

BodyBound == BodyNames \subseteq (DOMAIN Target.env \cup ParamSet)

\* C5: a call of a pattern with more or fewer arguments than parameters
\* fails with InterpretError and returns no pattern; with as many arguments
\* as parameters it is not rejected, and returns the pattern without
\* parameters when the names it uses are bound.
Arity ==
    Finished =>
        /\ Len(TheCall.args) # Len(Target.params)
              => node = Err("InterpretError")
        /\ Len(TheCall.args) = Len(Target.params)
              => /\ node # Err("InterpretError")
                 /\ (ArgsBound /\ BodyBound)
                       => Returned /\ node.k = "Pattern" /\ node.params = <<>>

\* A call with more arguments than parameters, all names bound, was rejected.
ArityWitness ==
    /\ node = Err("InterpretError")
    /\ Len(TheCall.args) > Len(Target.params)
    /\ Len(Target.params) > 0
    /\ ArgsBound
    /\ BodyBound

\* The value of an argument in the environment of the call.
ArgValue(a) == IF a.k = "Get" THEN arg[a.name] ELSE a

\* The value of a name of the body: its argument when it is a parameter,
\* what the pattern captured otherwise.
Resolved(name) ==
    IF name \in ParamSet
    THEN ArgValue(TheCall.args[CHOOSE i \in 1..Len(Target.params) :
                                    Target.params[i] = name])
    ELSE Target.env[name]

\* C6: the arguments of a call are resolved in the environment of the call
\* and the names of the body in the environment the pattern captured
\* extended with its parameters, a parameter shadowing a captured name; a
\* body name bound in neither fails with KeyError even when the environment
\* of the call binds it.
LexicalScoping ==
    (Finished /\ Len(TheCall.args) = Len(Target.params)) =>
        /\ Returned =>
              /\ node.rows[1].stitches[1].times
                    = Resolved(Target.rows[1].stitches[1].times.name)
              /\ node.rows[1].stitches[2].to_last
                    = Resolved(Target.rows[1].stitches[2].to_last.name)
        /\ ~(ArgsBound /\ BodyBound) => node = Err("KeyError")

\* A returned call whose parameter x shadows a captured x and whose argument
\* for it is the x of the call's environment; the other body name is captured.
LexicalScopingWitness ==
    /\ Returned
    /\ "x" \in ParamSet
    /\ "x" \in DOMAIN Target.env
    /\ Target.rows[1].stitches[1].times.name = "x"
    /\ "x" \in DOMAIN arg
    /\ node.rows[1].stitches[1].times = arg["x"]
    /\ arg["x"] # Target.env["x"]
    /\ Target.rows[1].stitches[2].to_last.name = "y"
    /\ "y" \notin ParamSet
    /\ "y" \in DOMAIN arg
    /\ node.rows[1].stitches[2].to_last = Target.env["y"]

-----------------------------------------------------------------------------
(* _verify_psso applied to a pattern of one row *)

PssoItems ==
    {StitchLit(v) : v \in {"K", "SL", "SL2TOG_K", "PSSO"}}
    \cup {RawFix(PssoStitches, 2),
          RawFix(<<StitchLit("SL"), StitchLit("K")>>, 2)}

RECURSIVE ItemLists(_)
ItemLists(len) ==
    IF len = 0 THEN {<<>>}
    ELSE {Append(items, a) : items \in ItemLists(len - 1), a \in PssoItems}

PssoPatterns ==
    {infer_counts(RawPattern(<<RawRow(stitches, "None")>>), None) :
        stitches \in UNION {ItemLists(len) : len \in 1..MaxStitches}}

InitPsso ==
    /\ stage = "counted"
    /\ node \in PssoPatterns
    /\ prev = node
    /\ arg = node
    /\ diags = NoErrors

VerifyPsso ==
    /\ stage = "counted"
    /\ diags' = verify_psso(node)
    /\ stage' = "verified"
    /\ UNCHANGED <<node, prev, arg>>

NextPsso == VerifyPsso

SpecPsso == InitPsso /\ [][NextPsso]_vars

\* The stitches of a row one by one, every slipped stitch a SL marker.
RECURSIVE Markers(_)
Markers(n) ==
    CASE n.k = "StitchLit" ->
            IF n.value \in {"SL", "SL_P"} THEN <<"SL">>
            ELSE IF n.value \in {"SL2TOG_K", "SL2TOG_P"} THEN <<"SL", "SL">>
            ELSE <<n.value>>
      [] n.k = "FixedStitchRepeat" ->
            Iterated(Concat([i \in 1..Len(n.stitches) |->
                                Markers(n.stitches[i])]),
                     n.times.value)
      [] n.k = "Row" ->
            Concat([i \in 1..Len(n.stitches) |-> Markers(n.stitches[i])])

TheRow == Markers(arg.rows[1])

PssoAt == {p \in 1..Len(TheRow) : TheRow[p] = "PSSO"}

Greatest(set) == CHOOSE m \in set : \A x \in set : x <= m

\* The places of the SL markers among the first p stitches that no PSSO
\* among them has consumed, each PSSO consuming the nearest one before it.
RECURSIVE Unconsumed(_, _)
Unconsumed(markers, p) ==
    IF p = 0 THEN {}
    ELSE LET before == Unconsumed(markers, p - 1)
         IN  IF markers[p] = "SL" THEN before \cup {p}
             ELSE IF markers[p] = "PSSO" /\ before # {}
             THEN before \ {Greatest(before)}
             ELSE before

\* How many diagnostics of a message the verifier yielded.
Count(message) ==
    Cardinality({i \in 1..Len(diags.errors) :
                    diags.errors[i].message = message})

\* A non-slip stitch lies between the nearest unconsumed SL and the PSSO at p.
Separated(p) ==
    LET before == Unconsumed(TheRow, p - 1)
    IN  /\ before # {}
        /\ \E j \in (Greatest(before) + 1)..(p - 1) : TheRow[j] # "SL"

\* C7: a row where a SL is right before a PSSO gets the diagnostic 'PSSO
\* without stitch to pass over'; a row where every PSSO has a non-slip stitch
\* between it and the nearest unconsumed SL before it gets none.
PassOverAdjacency ==
    stage = "verified" =>
        /\ (\E p \in PssoAt : p > 1 /\ TheRow[p - 1] = "SL")
              => Count("PSSO without stitch to pass over") > 0
        /\ (\A p \in PssoAt : Separated(p))
              => Count("PSSO without stitch to pass over") = 0

\* The nested form SL, K, SL, K, PSSO, K, PSSO was verified without diagnostic.
PassOverAdjacencyWitness ==
    /\ stage = "verified"
    /\ TheRow = <<"SL", "K", "SL", "K", "PSSO", "K", "PSSO">>
    /\ diags = NoErrors

\* C8: a row gets one 'PSSO without SLIP' for each PSSO that no unconsumed SL
\* marker precedes, a 2-stitch slip being two markers and each PSSO consuming
\* the nearest unconsumed marker before it, and no other.
PassOverNeedsSlip ==
    stage = "verified" =>
        Count("PSSO without SLIP")
            = Cardinality({p \in PssoAt : Unconsumed(TheRow, p - 1) = {}})

\* A 2-stitch slip served two pass-overs and the third one found none.
PassOverNeedsSlipWitness ==
    /\ stage = "verified"
    /\ arg.rows[1].stitches[1].k = "StitchLit"
    /\ arg.rows[1].stitches[1].value = "SL2TOG_K"
    /\ Cardinality(PssoAt) = 3
    /\ Cardinality({p \in 1..Len(TheRow) : TheRow[p] = "SL"}) = 2
    /\ Count("PSSO without SLIP") = 1

\* ---------------------------------------------------------------------------
\* C9: a row that needs more stitches than the row before it left.  The
\* patterns are those of the pipeline whose cast-on row casts on n stitches
\* and whose one body row knits n + 1, with or without a bind-off row that
\* binds off no more than the n + 1 stitches the knit row makes, so that the
\* knit row is the only row short of stitches.

BindOffUpTo(m) ==
    {RawRow(<<ToEnd("BO")>>, "None")}
    \cup {RawRow(<<RawFix(<<StitchLit("BO")>>, b)>>, "None") : b \in 1..m}

ShortKnit(n) ==
    {RawPattern(<<RawRow(<<RawFix(<<StitchLit("CO")>>, n)>>, "None"),
                  RawRow(<<RawFix(<<StitchLit("K")>>, n + 1)>>, "None")>> \o e) :
        e \in {<<>>} \cup {<<r>> : r \in BindOffUpTo(n + 1)}}

ShortKnitPatterns == UNION {ShortKnit(n) : n \in 1..MaxCast}

ShortKnitVerified == stage = "verified" /\ arg \in ShortKnitPatterns

TooFew == {i \in DOMAIN diags.errors :
              diags.errors[i].message = "too few stitches"}

\* C9 as stated: verification of cast on n, knit n + 1 yields exactly one
\* 'too few stitches' diagnostic, and it is attached to the knit row.
TooFewOnce ==
    ShortKnitVerified =>
        /\ Cardinality(TooFew) = 1
        /\ \A i \in TooFew : diags.errors[i].node = node.rows[2]

\* C9, amended: verification of cast on n, knit n + 1 yields exactly two
\* 'too few stitches' diagnostics, both for the knit row and none for any other
\* row: the first attached to the row's repeat [K] n + 1, the second to the
\* knit row itself.
TooFewTwice ==
    ShortKnitVerified =>
        /\ Cardinality(TooFew) = 2
        /\ diags.errors[1] =
               KnitError("too few stitches", node.rows[2].stitches[1])
        /\ diags.errors[2] = KnitError("too few stitches", node.rows[2])
        /\ node.rows[2].stitches[1].k = "FixedStitchRepeat"
        /\ node.rows[2].stitches[1].times.value = node.rows[1].produces + 1

\* Cast on MaxCast - 1, knit MaxCast, bind off to the end was verified.
TooFewTwiceWitness ==
    /\ ShortKnitVerified
    /\ Len(node.rows) = 3
    /\ node.rows[1].produces = MaxCast - 1
    /\ node.rows[2].consumes = MaxCast
    /\ node.rows[3].stitches[1].k = "ExpandingStitchRepeat"
    /\ diags.raised = "none"
    /\ Len(diags.errors) = 2

\* ---------------------------------------------------------------------------
\* C10: a row that holds a PSSO is never reversed.

RECURSIVE HasPsso(_)
HasPsso(n) ==
    CASE n.k = "StitchLit" -> n.value = "PSSO"
      [] HasStitches(n) -> \E i \in DOMAIN n.stitches : HasPsso(n.stitches[i])
      [] OTHER -> FALSE

\* The rows of a pattern in document order, each row repeat's rows once.
RECURSIVE AllRows(_)
AllRows(n) ==
    CASE n.k = "Row" -> <<n>>
      [] HasRows(n) -> Concat([i \in DOMAIN n.rows |-> AllRows(n.rows[i])])
      [] OTHER -> <<>>

\* A pattern all of whose rows are plain rows, one of which holds a PSSO and
\* is written for the side opposite to the one its position is knitted on.
PssoOnWrongSide(pattern, side) ==
    /\ \A i \in DOMAIN pattern.rows : pattern.rows[i].k = "Row"
    /\ \E i \in DOMAIN pattern.rows :
          /\ pattern.rows[i].side # Alternate(side, i)
          /\ HasPsso(pattern.rows[i])

\* A block of two one-row patterns written for different sides, the second of
\* which holds a PSSO: merging has to reverse that row.
PssoInSecondSibling(pattern) ==
    \E i \in DOMAIN pattern.rows :
        /\ pattern.rows[i].k = "Block"
        /\ Len(pattern.rows[i].patterns) = 2
        /\ \A j \in 1..2 :
              /\ Len(pattern.rows[i].patterns[j].rows) = 1
              /\ pattern.rows[i].patterns[j].rows[1].k = "Row"
        /\ pattern.rows[i].patterns[1].rows[1].side
              # pattern.rows[i].patterns[2].rows[1].side
        /\ HasPsso(pattern.rows[i].patterns[2].rows[1])

\* C10: when side alternation or the merging of a block has to reverse a row
\* that holds a PSSO, the pass raises InterpretError; a pass that returns has
\* changed no row that holds a PSSO, before or after.
PssoNeverReversed ==
    /\ (stage = "alternated") =>
          /\ ~PssoOnWrongSide(prev, first_side(prev))
          /\ Len(AllRows(node)) = Len(AllRows(prev))
          /\ \A i \in DOMAIN AllRows(prev) :
                AllRows(node)[i] # AllRows(prev)[i]
                    => /\ ~HasPsso(AllRows(prev)[i])
                       /\ ~HasPsso(AllRows(node)[i])
                       /\ AllRows(node)[i].side # AllRows(prev)[i].side
    /\ (stage = "recounted" /\ IsErr(node)
            /\ PssoOnWrongSide(prev, first_side(prev)))
          => node = Err("InterpretError")
    /\ (stage = "flattened") => ~PssoInSecondSibling(prev)
    /\ (stage = "counted" /\ IsErr(node) /\ PssoInSecondSibling(prev))
          => node = Err("InterpretError")

\* Side alternation met a wrong-side row whose PSSO lies inside a repeat, and
\* raised.
PssoNeverReversedWitness ==
    /\ stage = "recounted"
    /\ node = Err("InterpretError")
    /\ PssoOnWrongSide(prev, first_side(prev))
    /\ \E i \in DOMAIN prev.rows :
          /\ prev.rows[i].side # Alternate(first_side(prev), i)
          /\ \E j \in DOMAIN prev.rows[i].stitches :
                /\ prev.rows[i].stitches[j].k = "FixedStitchRepeat"
                /\ HasPsso(prev.rows[i].stitches[j])

\* ---------------------------------------------------------------------------
\* C11: the rows of a prepared pattern alternate sides as they are knitted.

AllCastOns(row) ==
    /\ row.stitches # <<>>
    /\ \A i \in DOMAIN row.stitches :
          /\ row.stitches[i].k = "FixedStitchRepeat"
          /\ \A j \in DOMAIN row.stitches[i].stitches :
                row.stitches[i].stitches[j] = StitchLit("CO")

\* C11: in the pattern prepare_pattern returns, the rows as they are knitted
\* (every row repeat iterated its times) lie on opposite sides one after the
\* other, and the first row is on the wrong side exactly when the first row of
\* the pattern as written is all cast-ons.
StrictAlternation ==
    stage = "prepared" =>
        LET rows == PhysicalRows(node)
        IN  /\ rows # <<>>
            /\ rows[1].side = IF AllCastOns(arg.rows[1]) THEN "WS" ELSE "RS"
            /\ \A i \in 1..(Len(rows) - 1) :
                  rows[i + 1].side = Flip(rows[i].side)

\* ---------------------------------------------------------------------------
\* C12: verify_pattern runs to its end on every prepared pattern.

\* C12: for every pattern prepare_pattern returns, verify_pattern yields its
\* diagnostics and ends without raising an exception.
VerifierTotal == stage = "verified" => diags.raised = "none"

\* ---------------------------------------------------------------------------
\* C13, C14, C15: merging row repeats side by side.

\* A sibling pattern that is one row repeat of plain rows.
OneRepeat(p) ==
    /\ Len(p.rows) = 1
    /\ p.rows[1].k = "RowRepeat"
    /\ \A i \in DOMAIN p.rows[1].rows : p.rows[1].rows[i].k = "Row"

\* The least common multiple, as the smallest common multiple.
LeastCommonMultiple(a, b) ==
    CHOOSE m \in 1..(a * b) :
        /\ m % a = 0
        /\ m % b = 0
        /\ \A l \in 1..(m - 1) : l % a # 0 \/ l % b # 0

\* The rows of one iteration of the merged pattern: those of its row repeat
\* when it is one row repeat, its own rows otherwise.
OneIteration(p) ==
    IF Len(p.rows) = 1 /\ p.rows[1].k = "RowRepeat"
    THEN PhysicalRows([p.rows[1] EXCEPT !.times = NaturalLit(1)])
    ELSE PhysicalRows(p)

Left == prev.patterns[1]

Right == prev.patterns[2]

\* Two siblings that are each one row repeat.
TwoRepeatsMerged ==
    /\ stage = "merged"
    /\ OneRepeat(Left)
    /\ OneRepeat(Right)

\* C13: two 2-row repeats, one repeated 3 times and one once, merge into a
\* pattern whose number of knitted rows both siblings' numbers of knitted rows
\* divide; and two row repeats of r1 and r2 rows, each repeated more than once
\* and often enough to fill lcm(r1, r2) rows, merge into a row repeat one
\* iteration of which has lcm(r1, r2) rows.
LcmMerge ==
    TwoRepeatsMerged =>
        LET a == Left.rows[1]
            b == Right.rows[1]
            both == LeastCommonMultiple(Len(a.rows), Len(b.rows))
        IN  /\ (Len(a.rows) = 2 /\ Len(b.rows) = 2
                    /\ {a.times.value, b.times.value} = {1, 3})
                  => /\ Len(PhysicalRows(node)) % Len(PhysicalRows(Left)) = 0
                     /\ Len(PhysicalRows(node)) % Len(PhysicalRows(Right)) = 0
            /\ (a.times.value > 1 /\ b.times.value > 1
                    /\ a.times.value * Len(a.rows) >= both
                    /\ b.times.value * Len(b.rows) >= both)
                  => /\ Len(node.rows) = 1
                     /\ node.rows[1].k = "RowRepeat"
                     /\ Len(OneIteration(node)) = both

\* A 2-row repeat worked 3 times beside a 3-row repeat worked twice gave a
\* 6-row repeat.
LcmMergeWitness ==
    /\ TwoRepeatsMerged
    /\ Len(Left.rows[1].rows) = 2
    /\ Left.rows[1].times.value = 3
    /\ Len(Right.rows[1].rows) = 3
    /\ Right.rows[1].times.value = 2
    /\ Len(OneIteration(node)) = 6
    /\ node.rows[1].k = "RowRepeat"

\* The number of SL stitches worked when a node is knitted.
RECURSIVE SlipsIn(_)
SlipsIn(n) ==
    CASE n.k = "StitchLit" -> IF n.value = "SL" THEN 1 ELSE 0
      [] n.k = "FixedStitchRepeat" ->
            n.times.value
                * SumSeq([i \in 1..Len(n.stitches) |-> SlipsIn(n.stitches[i])])
      [] n.k = "Row" ->
            SumSeq([i \in 1..Len(n.stitches) |-> SlipsIn(n.stitches[i])])
      [] OTHER -> 0

SlipsWorked(p) ==
    SumSeq([i \in 1..Len(PhysicalRows(p)) |-> SlipsIn(PhysicalRows(p)[i])])

\* C14: a sibling row repeat is worked in the merged pattern at most its own
\* times: when one sibling is a repeat of rows of one SL each and the other
\* sibling has no SL, the rows of the merged pattern as they are knitted hold
\* no more SL stitches than the first sibling's rows as they are knitted.
NoExtraRepeats ==
    (TwoRepeatsMerged /\ SlipsWorked(Left) = 0)
        => SlipsWorked(node) <= SlipsWorked(Right)

\* The kinds of a sibling's children as they are merged: a row repeat worked
\* once stands for its rows.
KindsOf(p) ==
    Concat([i \in 1..Len(p.rows) |->
                IF p.rows[i].k = "RowRepeat" /\ p.rows[i].times.value <= 1
                THEN [j \in 1..Len(p.rows[i].rows) |-> "Row"]
                ELSE <<p.rows[i].k>>])

SameKinds == KindsOf(Left) = KindsOf(Right)

KindMismatch ==
    \E i \in 1..Min(Len(KindsOf(Left)), Len(KindsOf(Right))) :
        KindsOf(Left)[i] # KindsOf(Right)[i]

MaxBox == 4

FillPatterns ==
    {RawPattern(rows) :
        rows \in {<<RawRow(<<StitchLit("K"), StitchLit("P")>>, "None"),
                    RawRow(<<StitchLit("P"), StitchLit("K")>>, "None")>>,
                  <<RawRow(<<StitchLit("K")>>, "None")>>,
                  <<RawRow(<<RawFix(<<StitchLit("K")>>, 2)>>, "None"),
                    RawRow(<<StitchLit("K2TOG")>>, "None")>>,
                  <<RawRow(<<StitchLit("YO")>>, "None"),
                    RawRow(<<StitchLit("K")>>, "None")>>,
                  <<RawRowRepeat(<<RawRow(<<StitchLit("K")>>, "None")>>, 2),
                    RawRow(<<StitchLit("P")>>, "None")>>,
                  <<RawRow(<<RawFix(<<StitchLit("CO")>>, 2)>>, "None")>>}}

InitFill ==
    /\ stage = "raw"
    /\ \E p \in FillPatterns, w \in 0..MaxBox, h \in 0..MaxBox :
          /\ node = p
          /\ arg = [pattern |-> p, width |-> w, height |-> h]
    /\ prev = node
    /\ diags = NoErrors

Fill ==
    /\ stage = "raw"
    /\ Ran(fill(node, arg.width, arg.height), "substituted")

NextFill ==
    \/ Fill
    \/ InferSides
    \/ InferCounts
    \/ Flatten

SpecFill == InitFill /\ [][NextFill]_vars

\* The stitches a node needs from the row below, from the stitch catalog.
RECURSIVE StitchesNeeded(_)
StitchesNeeded(n) ==
    CASE n.k = "StitchLit" -> StitchConsumes(n.value)
      [] n.k = "FixedStitchRepeat" ->
            n.times.value
                * SumSeq([i \in 1..Len(n.stitches) |->
                            StitchesNeeded(n.stitches[i])])
      [] n.k = "Row" ->
            SumSeq([i \in 1..Len(n.stitches) |-> StitchesNeeded(n.stitches[i])])
      [] n.k = "RowRepeat" -> StitchesNeeded(n.rows[1])

WidestRow ==
    LET widths == {StitchesNeeded(arg.pattern.rows[i]) :
                        i \in DOMAIN arg.pattern.rows}
    IN  CHOOSE m \in widths : \A c \in widths : c <= m

RowsDown == Len(PhysicalRows(arg.pattern))

PositiveMultiple(x, of) == \E t \in 1..MaxBox : x = t * of

Fits ==
    /\ PositiveMultiple(arg.width, WidestRow)
    /\ PositiveMultiple(arg.height, RowsDown)

FillRan == stage = "substituted" \/ (stage = "raw" /\ IsErr(node))

\* C16: fill raises InterpretError whenever the width is not a positive
\* multiple of the pattern's widest row or the height is not a positive
\* multiple of its number of rows; otherwise it returns a pattern of height
\* rows, which flattens to the pattern's rows, each width / widest times as
\* wide, repeated height / rows times.
FillEven ==
    /\ (FillRan /\ ~Fits) => node = Err("InterpretError")
    /\ (FillRan /\ Fits /\ WidestRow > 0) =>
          /\ stage = "substituted"
          /\ count_rows(node) = arg.height
    /\ (stage = "flattened") =>
          /\ Len(PhysicalRows(node)) = arg.height
          /\ \A i \in 1..Len(PhysicalRows(node)) :
                PhysicalRows(node)[i].consumes =
                    (arg.width \div WidestRow)
                        * StitchesNeeded(
                            PhysicalRows(arg.pattern)[((i - 1) % RowsDown) + 1])

\* ---------------------------------------------------------------------------
\* _infer_sides from either starting side, and a second time from the other
\* (as _repeat_rows does on the rows it has already sided).

SideRows ==
    {RawRow(<<s>>, side) : s \in {StitchLit("K"), StitchLit("CO")},
                           side \in {"None", "RS", "WS"}}

SideNodes ==
    SideRows
    \cup {RawRowRepeat(<<a, b>>, 2) : a, b \in SideRows}
    \cup {RawPattern(<<a, b>>) : a, b \in SideRows}
    \cup {RawBlock(<<RawPattern(<<a>>), RawPattern(<<b>>)>>) : a, b \in SideRows}
    \cup {FixedBlockRepeat(RawBlock(<<RawPattern(<<a>>)>>), NaturalLit(2),
                           None, None) : a \in SideRows}

InitSides ==
    /\ stage = "substituted"
    /\ node \in SideNodes
    /\ arg \in {"RS", "WS"}
    /\ prev = node
    /\ diags = NoErrors

InferSidesFrom ==
    /\ stage = "substituted"
    /\ Ran(infer_sides(node, arg), "sided")

InferSidesAgain ==
    /\ stage = "sided"
    /\ Ran(infer_sides(node, Flip(arg)), "sided again")

NextSides ==
    \/ InferSidesFrom
    \/ InferSidesAgain

SpecSides == InitSides /\ [][NextSides]_vars

RECURSIVE RowsIn(_)
RowsIn(n) ==
    CASE n.k = "Row" -> <<n>>
      [] n.k \in {"Pattern", "RowRepeat"} ->
            Concat([i \in DOMAIN n.rows |-> RowsIn(n.rows[i])])
      [] n.k = "Block" ->
            Concat([i \in DOMAIN n.patterns |-> RowsIn(n.patterns[i])])
      [] n.k = "FixedBlockRepeat" -> RowsIn(n.block)
      [] OTHER -> <<>>

ExplicitSide(row) == row.side # "None" /\ ~row.inferred

SidesRan == stage \in {"sided", "sided again"} /\ ~IsErr(node)

\* C17: _infer_sides, whatever starting side it is given, returns every row
\* with an explicit (not inferred) side unchanged, and gives a side, marked
\* inferred, only to the rows that had none or an inferred one.
ExplicitSidesKept ==
    SidesRan =>
        /\ Len(RowsIn(node)) = Len(RowsIn(prev))
        /\ \A i \in DOMAIN RowsIn(prev) :
              LET before == RowsIn(prev)[i]
                  after == RowsIn(node)[i]
              IN  IF ExplicitSide(before)
                  THEN after = before
                  ELSE /\ after.inferred
                       /\ after.side \in {"RS", "WS"}
                       /\ after = [before EXCEPT !.side = after.side,
                                                 !.inferred = TRUE]

\* An explicit WS row in a place where the pass assigns RS stays WS, next to
\* a row that had no side, through both passes.
ExplicitSidesKeptWitness ==
    /\ stage = "sided again"
    /\ node.k = "RowRepeat"
    /\ arg = "RS"
    /\ RowsIn(node)[1].side = "WS" /\ ~RowsIn(node)[1].inferred
    /\ RowsIn(node)[2].side = "RS" /\ RowsIn(node)[2].inferred
    /\ RowsIn(prev)[2].side = "WS" /\ RowsIn(prev)[2].inferred

\* ---------------------------------------------------------------------------
\* substitute applied to a pattern that is named, passed or called.

\* Patterns without parameters bound to f: a body of literals, and the
\* bodies that name what the pattern captured.
NamedPatterns ==
    {Pattern(<<RawRow(<<StitchLit("K")>>, "None")>>, <<>>, EmptyEnv, None, None)}
    \cup {Pattern(Body(a, b), <<>>, env, None, None) :
             a \in Names, b \in Names, env \in CapturedEnvs}

\* A pattern that works the pattern it is given as p.
Worker ==
    Pattern(<<RawBlock(<<Get("p")>>)>>, <<"p">>, EmptyEnv, None, None)

\* f used without being called, passed, called, and called then passed.
Uses ==
    {Get("f"),
     RawPattern(<<RawBlock(<<Get("f")>>)>>),
     Call(Get("g"), <<Get("f")>>),
     Call(Get("f"), <<>>),
     Call(Get("g"), <<Call(Get("f"), <<>>)>>)}

InitSubst ==
    /\ stage = "raw"
    /\ node \in Uses
    /\ \E f \in NamedPatterns, caller \in CallerEnvs :
          arg = caller @@ ("f" :> f) @@ ("g" :> Worker)
    /\ prev = node
    /\ diags = NoErrors

SubstituteUse ==
    /\ stage = "raw"
    /\ Ran(substitute(node, arg), "substituted")

NextSubst == SubstituteUse

SpecSubst == InitSubst /\ [][NextSubst]_vars

RECURSIVE HasRef(_)
HasRef(n) ==
    LET some(seq) == \E i \in DOMAIN seq : HasRef(seq[i])
    IN  CASE n.k \in {"Get", "Call"} -> TRUE
          [] n.k = "FixedStitchRepeat" -> some(n.stitches) \/ HasRef(n.times)
          [] n.k = "ExpandingStitchRepeat" ->
                some(n.stitches) \/ HasRef(n.to_last)
          [] n.k = "Row" -> some(n.stitches)
          [] n.k = "RowRepeat" -> some(n.rows) \/ HasRef(n.times)
          [] n.k = "Pattern" -> some(n.rows)
          [] n.k = "Block" -> some(n.patterns)
          [] n.k = "FixedBlockRepeat" -> HasRef(n.block) \/ HasRef(n.times)
          [] OTHER -> FALSE

\* C18: whenever substitute returns a tree, the tree has no Get and no Call
\* at any depth, also inside a pattern that a Get named.
SubstitutionEliminates == stage = "substituted" => ~HasRef(node)

-----------------------------------------------------------------------------
(* knitscript/loader.py: loading a document *)

MaxStmts == 3

MaxUnfold == 3

PatternDef(name, pattern) ==
    [k |-> "PatternDef", name |-> name, pattern |-> pattern]

Using(names, module) == [k |-> "Using", names |-> names, module |-> module]

\* The dictionary of a file's _load. A Pattern keeps the dictionary it was
\* enclosed with, the object itself and not a copy, so the model keeps which
\* dictionary it is and reads its items when the pattern is used.
EnvOf(file) == [k |-> "EnvOf", file |-> file]

\* env[name] = value
SetItem(env, name, value) ==
    [x \in DOMAIN env \cup {name} |-> IF x = name THEN value ELSE env[x]]

\* A parsed pattern of one row of one stitch, and one that calls another.
Parsed(rows) == Pattern(rows, <<>>, NoEnv, None, None)

Works(s) == Parsed(<<RawRow(<<StitchLit(s)>>, "None")>>)

Calls(name) == Parsed(<<RawBlock(<<Call(Get(name), <<>>)>>)>>)

\* load_file of the module m: g slips, h calls g.
used_env ==
    SetItem(SetItem(EmptyEnv, "g", enclose(Works("SL"), EnvOf("m"))),
            "h", enclose(Calls("g"), EnvOf("m")))

\* A pattern as substitute reads it: each env followed to the items its
\* dictionary has now, MaxUnfold patterns deep.
RECURSIVE Unfold(_, _, _)
Unfold(pattern, env, depth) ==
    IF pattern.k # "Pattern" \/ pattern.env = NoEnv THEN pattern
    ELSE IF depth = 0 THEN [pattern EXCEPT !.env = NoEnv]
    ELSE LET items == IF pattern.env.file = "m" THEN used_env ELSE env
         IN  [pattern EXCEPT !.env =
                 [x \in DOMAIN items |-> Unfold(items[x], env, depth - 1)]]

Stmts ==
    {PatternDef("main", Calls("g")), PatternDef("main", Calls("h")),
     PatternDef("g", Works("K")), PatternDef("g", Works("P")),
     PatternDef("h", Calls("g")),
     Using(<<"g">>, "m"), Using(<<"g", "h">>, "m")}

RECURSIVE Documents(_)
Documents(len) ==
    IF len = 0 THEN {<<>>}
    ELSE Documents(len - 1)
         \cup {Append(d, s) : d \in {d \in Documents(len - 1) : Len(d) = len - 1},
                              s \in Stmts}

InitLoad ==
    /\ stage = "loading"
    /\ \E stmts \in Documents(MaxStmts) :
          /\ node = [k |-> "Document", stmts |-> stmts]
          /\ arg = [stmts |-> stmts, pc |-> 1, env |-> EmptyEnv]
    /\ prev = node
    /\ diags = NoErrors

LoadPatternDef ==
    /\ stage = "loading"
    /\ ~IsErr(node)
    /\ arg.pc <= Len(node.stmts)
    /\ LET stmt == node.stmts[arg.pc]
       IN  /\ stmt.k = "PatternDef"
           /\ arg' = [arg EXCEPT
                         !.pc = arg.pc + 1,
                         !.env = SetItem(arg.env, stmt.name,
                                         enclose(stmt.pattern,
                                                 EnvOf("document")))]
    /\ UNCHANGED <<stage, node, prev, diags>>

RECURSIVE SetItems(_, _, _)
SetItems(env, names, from) ==
    IF names = <<>> THEN env
    ELSE SetItems(SetItem(env, Head(names), from[Head(names)]),
                  Tail(names), from)

LoadUsing ==
    /\ stage = "loading"
    /\ ~IsErr(node)
    /\ arg.pc <= Len(node.stmts)
    /\ LET stmt == node.stmts[arg.pc]
       IN  /\ stmt.k = "Using"
           /\ arg' = [arg EXCEPT
                         !.pc = arg.pc + 1,
                         !.env = SetItems(arg.env, stmt.names, used_env)]
    /\ UNCHANGED <<stage, node, prev, diags>>

\* process_pattern: env["main"] of the loaded document, to prepare_pattern.
TakeMain ==
    /\ stage = "loading"
    /\ ~IsErr(node)
    /\ arg.pc > Len(node.stmts)
    /\ IF "main" \in DOMAIN arg.env
       THEN /\ node' = Unfold(arg.env["main"], arg.env, MaxUnfold)
            /\ stage' = "raw"
       ELSE /\ node' = Err("KeyError")
            /\ stage' = stage
    /\ prev' = node
    /\ UNCHANGED <<arg, diags>>

NextLoad ==
    \/ LoadPatternDef
    \/ LoadUsing
    \/ TakeMain
    \/ Substitute

SpecLoad == InitLoad /\ [][NextLoad]_vars

\* The bindings visible through the environment the pattern named x holds.
Bindings(a, x) == IF a.env[x].env.file = "m" THEN used_env ELSE a.env

\* The statements before the i-th one put a pattern under the name.
DefinedBefore(stmts, i, name) ==
    \E j \in 1..(i - 1) :
        \/ stmts[j].k = "PatternDef" /\ stmts[j].name = name
        \/ stmts[j].k = "Using"
              /\ \E n \in DOMAIN stmts[j].names : stmts[j].names[n] = name

\* The last definition of main calls a name that no earlier statement defined.
MainCallsLater(stmts) ==
    \E i \in DOMAIN stmts :
        /\ stmts[i].k = "PatternDef" /\ stmts[i].name = "main"
        /\ \A j \in (i + 1)..Len(stmts) :
              ~(stmts[j].k = "PatternDef" /\ stmts[j].name = "main")
        /\ ~DefinedBefore(stmts, i,
                          stmts[i].pattern.rows[1].patterns[1].target.name)

CapturedStep ==
    /\ \A x \in DOMAIN arg.env :
          (x \in DOMAIN arg'.env /\ arg'.env[x] = arg.env[x])
              => Bindings(arg', x) = Bindings(arg, x)
    /\ MainCallsLater(arg'.stmts) => stage' # "substituted"

RECURSIVE HasPassOver(_)
HasPassOver(n) ==
    LET some(seq) == \E i \in DOMAIN seq : HasPassOver(seq[i])
    IN  CASE n.k = "StitchLit" -> n.value = "PSSO"
          [] HasStitches(n) -> some(n.stitches)
          [] HasRows(n) -> some(n.rows)
          [] n.k = "Block" -> some(n.patterns)
          [] n.k = "FixedBlockRepeat" -> HasPassOver(n.block)
          [] OTHER -> FALSE

Counted(x) == x # None

RECURSIVE NegativeCount(_)
NegativeCount(n) ==
    LET some(seq) == \E i \in DOMAIN seq : NegativeCount(seq[i])
        here == /\ n.k \in Knittables
                /\ ~HasPassOver(n)
                /\ \/ Counted(n.consumes) /\ n.consumes < 0
                   \/ Counted(n.produces) /\ n.produces < 0
    IN  \/ here
        \/ CASE HasStitches(n) -> some(n.stitches)
             [] HasRows(n) -> some(n.rows)
             [] n.k = "Block" -> some(n.patterns)
             [] n.k = "FixedBlockRepeat" -> NegativeCount(n.block)
             [] OTHER -> FALSE

\* C20: after infer_counts with the available stitches known, no Knittable
\* node without a pass-over in it has a negative consumes or produces; an
\* expanding repeat whose to_last is more than what is available gets none.
NonNegativeCounts ==
    stage \in {"counted", "recounted"} => ~NegativeCount(node)

\* ---------------------------------------------------------------------------
\* C21: the counts infer_counts gives a row repeat and a pattern.

CountsRan == stage \in {"counted", "recounted"} /\ ~IsErr(node)

LastRow(n) == n.rows[Len(n.rows)]

TimesOf(n) == IF n.k = "RowRepeat" THEN n.times.value ELSE 1

FirstAndLast(n) ==
    /\ n.consumes = n.rows[1].consumes
    /\ n.produces = LastRow(n).produces

\* The repeat ends an iteration with the stitches its first row worked.
Steady(n) == LastRow(n).produces = n.rows[1].consumes

FirstAndLastWhenSteady(n) ==
    /\ n.consumes = n.rows[1].consumes
    /\ (TimesOf(n) <= 1 \/ Steady(n)) => n.produces = LastRow(n).produces

\* The row repeats and patterns in the tree.
RECURSIVE RepeatsIn(_)
RepeatsIn(n) ==
    LET inside(seq) == UNION {RepeatsIn(seq[i]) : i \in DOMAIN seq}
    IN  CASE HasRows(n) -> {n} \cup inside(n.rows)
          [] n.k = "Block" -> inside(n.patterns)
          [] n.k = "FixedBlockRepeat" -> RepeatsIn(n.block)
          [] OTHER -> {}

\* C21: after infer_counts every RowRepeat and every Pattern consumes what
\* its first child consumes and produces what its last child produces,
\* whatever its times.
EdgeCounts == CountsRan => \A n \in RepeatsIn(node) : FirstAndLast(n)

\* The rows of the i-th row of the pattern written out times over and
\* counted from what the row before it produced.
WrittenOut(i) ==
    infer_counts(RawRowRepeat(RepeatSeq(prev.rows[i].rows,
                                        Max(1, prev.rows[i].times.value)), 1),
                 node.rows[i - 1].produces)

\* C21 as settled: every RowRepeat and Pattern consumes what its first child
\* consumes; it produces what its last child produces when times <= 1 or
\* when an iteration ends with the count it began with, and in every case
\* what the last row produces on the last iteration.
EdgeCountsSettled ==
    CountsRan =>
        /\ \A n \in RepeatsIn(node) : FirstAndLastWhenSteady(n)
        /\ \A i \in DOMAIN node.rows :
              (stage = "counted" /\ node.rows[i].k = "RowRepeat")
                  => node.rows[i].produces = WrittenOut(i).produces

\* A repeat of one decreasing row worked more than once: it produces less
\* than its (first-iteration) row does.
EdgeCountsWitness ==
    /\ stage = "counted"
    /\ \E i \in DOMAIN node.rows :
          /\ node.rows[i].k = "RowRepeat"
          /\ node.rows[i].times.value > 1
          /\ node.rows[i].rows[1].produces >= 2
          /\ node.rows[i].produces < node.rows[i].rows[1].produces
          /\ node.rows[i].produces = WrittenOut(i).produces

-----------------------------------------------------------------------------
(* _merge_across applied to rows that stand side by side *)

MaxSiblings == 3

\* Rows of sibling patterns, counted: plain, decreasing, with an expanding
\* repeat (also nested), one that cannot be reversed, and _padded_zip's fill.
MergeRows ==
    {PadRow}
    \cup {r \in {infer_counts(RawRow(stitches, side), available) :
                    stitches \in {<<StitchLit("K"), StitchLit("P")>>,
                                  <<StitchLit("K2TOG")>>,
                                  <<StitchLit("P"), RawExp(<<StitchLit("K")>>, 1)>>,
                                  <<RawFix(<<ToEnd("K"), StitchLit("P")>>, 1)>>,
                                  <<RawExp(<<RawExp(<<StitchLit("K")>>, 1)>>, 0)>>,
                                  PssoStitches},
                    side \in {"RS", "WS"},
                    available \in (MaxAvailable - 1)..MaxAvailable} : ~IsErr(r)}

RECURSIVE RowTuples(_)
RowTuples(len) ==
    IF len = 0 THEN {<<>>}
    ELSE {Append(t, r) : t \in RowTuples(len - 1), r \in MergeRows}

InitRows ==
    /\ stage = "counted"
    /\ \E len \in 2..MaxSiblings : \E given \in RowTuples(len) :
          node = Rows(given)
    /\ prev = node
    /\ arg = node
    /\ diags = NoErrors

MergeRowsAcross ==
    /\ stage = "counted"
    /\ Ran(merge_across(node.rows), "merged")

NextRows == MergeRowsAcross

SpecRows == InitRows /\ [][NextRows]_vars

\* The siblings handed to _merge_across, and the order they are read in.
Given == arg.rows

ReadOrder == IF Given[1].side = "RS" THEN Reversed(Given) ELSE Given

\* The siblings in reading order, each turned to the side of the first.
Turned ==
    [i \in DOMAIN ReadOrder |->
        IF ReadOrder[i].side # Given[1].side
        THEN reverse(ReadOrder[i], 0) ELSE ReadOrder[i]]

\* A node with every to_last left out.
RECURSIVE Untailed(_)
Untailed(n) ==
    CASE n.k = "ExpandingStitchRepeat" ->
            [n EXCEPT !.to_last = NaturalLit(0),
                      !.stitches = [i \in DOMAIN n.stitches |->
                                        Untailed(n.stitches[i])]]
      [] n.k \in {"FixedStitchRepeat", "Row"} ->
            [n EXCEPT !.stitches = [i \in DOMAIN n.stitches |->
                                        Untailed(n.stitches[i])]]
      [] OTHER -> n

RowsMerged == stage = "merged"

\* C22: _merge_across of rows r1..rk returns one row on r1's side whose
\* stitches are those of the siblings, each turned to that side by
\* _reverse(ri, 0) if it was on the other, read rk..r1 when the side is RS and
\* r1..rk otherwise (to_last apart), and whose consumes and produces are the
\* sums of the siblings'.
RowMergeOrder ==
    RowsMerged =>
        /\ node.k = "Row"
        /\ node.side = Given[1].side
        /\ Untailed(node).stitches =
              Concat([i \in DOMAIN Turned |-> Untailed(Turned[i]).stitches])
        /\ node.consumes = SumSeq([i \in DOMAIN Given |-> Given[i].consumes])
        /\ node.produces = SumSeq([i \in DOMAIN Given |-> Given[i].produces])

\* Three siblings merged on the right side, the middle one from the wrong
\* side: the first sibling's stitches come last.
RowMergeOrderWitness ==
    /\ RowsMerged
    /\ Len(Given) = 3
    /\ Given[1].side = "RS" /\ Given[2].side = "WS" /\ Given[3].side = "RS"
    /\ Given[1].stitches = <<StitchLit("K"), StitchLit("P")>>
    /\ Given[3].stitches = <<StitchLit("K2TOG")>>
    /\ Given[2].stitches # <<>>
    /\ node.stitches[1] = StitchLit("K2TOG")
    /\ node.stitches[Len(node.stitches)] = StitchLit("P")

\* ---------------------------------------------------------------------------
\* C23: the stitches an expanding repeat leaves after a merge.

\* The to_last of every expanding repeat of a node, outermost first, in
\* the order of the stitches.
RECURSIVE ToLasts(_)
ToLasts(n) ==
    LET inside == Concat([i \in DOMAIN n.stitches |-> ToLasts(n.stitches[i])])
    IN  CASE n.k = "ExpandingStitchRepeat" -> <<n.to_last.value>> \o inside
          [] n.k \in {"FixedStitchRepeat", "Row"} -> inside
          [] OTHER -> <<>>

\* What the siblings read after the i-th one consume.
PlacedAfter(i) ==
    SumSeq([j \in 1..(Len(Turned) - i) |-> Turned[i + j].consumes])

\* C23: in the merged row every expanding repeat that came from a sibling,
\* at any depth, leaves what it left before the merge (after the reversal of
\* its row) and what the siblings placed after its own consume; those of the
\* last sibling in reading order are unchanged.
TailReserved ==
    RowsMerged =>
        /\ ToLasts(node) =
              Concat([i \in DOMAIN Turned |->
                        [t \in DOMAIN ToLasts(Turned[i]) |->
                            ToLasts(Turned[i])[t] + PlacedAfter(i)]])
        /\ PlacedAfter(Len(Turned)) = 0

\* An expanding repeat inside a fixed repeat of the first sibling read, with
\* two stitches placed after it, beside an expanding repeat of the last
\* sibling that keeps its to_last.
TailReservedWitness ==
    /\ RowsMerged
    /\ Len(Turned) = 2
    /\ Turned[1].stitches # <<>>
    /\ Turned[1].stitches[1].k = "FixedStitchRepeat"
    /\ Turned[2].consumes >= 2
    /\ ToLasts(Turned[1]) = <<0>>
    /\ ToLasts(Turned[2]) = <<1>>
    /\ ToLasts(node) = <<Turned[2].consumes, 1>>

\* ---------------------------------------------------------------------------
\* C24: the `before` each child of a reversed row is reversed with.

RowReversed == stage \in {"reversed", "reversed twice"} /\ ~IsErr(node)

\* The child of the row before its reversal that is the i-th child after it.
ChildBefore(i) == prev.stitches[Len(prev.stitches) + 1 - i]

\* What the children preceding the i-th child after the reversal consume.
PrecedeAfterReversal(i) ==
    SumSeq([j \in 1..(i - 1) |-> node.stitches[j].consumes])

\* What the children that preceded it before the reversal consume.
PrecededBeforeReversal(i) ==
    SumSeq([j \in 1..(Len(prev.stitches) - i) |-> prev.stitches[j].consumes])

\* C24: _reverse(row, 0) reverses the order of the children and reverses each
\* child with a before equal to the consumes of the children that precede it
\* after the reversal.
BeforeAfterReversal ==
    RowReversed =>
        /\ Len(node.stitches) = Len(prev.stitches)
        /\ \A i \in DOMAIN node.stitches :
              node.stitches[i] = reverse(ChildBefore(i), PrecedeAfterReversal(i))

\* C24 as settled: _reverse(row, 0) reverses the order of the children and
\* reverses each child with a before equal to the consumes of the children
\* that preceded it before the reversal; an expanding repeat's new to_last
\* is that before, which is what the children now following it consume.
BeforeBeforeReversal ==
    RowReversed =>
        /\ Len(node.stitches) = Len(prev.stitches)
        /\ \A i \in DOMAIN node.stitches :
              /\ node.stitches[i] =
                    reverse(ChildBefore(i), PrecededBeforeReversal(i))
              /\ node.stitches[i].k = "ExpandingStitchRepeat" =>
                    /\ node.stitches[i].to_last.value = PrecededBeforeReversal(i)
                    /\ node.stitches[i].to_last.value =
                          SumSeq([j \in 1..(Len(node.stitches) - i) |->
                                    node.stitches[i + j].consumes])

\* A row of K2TOG and an expanding repeat, reversed: the repeat comes first
\* and leaves the two stitches of the K2TOG that used to come before it.
BeforeBeforeReversalWitness ==
    /\ stage = "reversed"
    /\ Len(prev.stitches) = 2
    /\ prev.stitches[1] = StitchLit("K2TOG")
    /\ prev.stitches[2].k = "ExpandingStitchRepeat"
    /\ prev.stitches[2].to_last.value = 0
    /\ prev.stitches[2].consumes > 0
    /\ node.stitches[1].k = "ExpandingStitchRepeat"
    /\ node.stitches[1].to_last.value = 2

\* ---------------------------------------------------------------------------
\* C25: a row repeat that does not end with the stitches it began with.

Verified == stage = "verified"

\* What is available to the i-th row of the verified pattern.
StartOf(i) == IF i = 1 THEN 0 ELSE node.rows[i - 1].produces

Reported(message, n) ==
    \E d \in DOMAIN diags.errors :
        diags.errors[d] = KnitError(message, n)

DriftReported(n) ==
    Reported("too few stitches", n) \/ Reported("stitches left over", n)

\* C25: verify_counts reports too few stitches on a RowRepeat with times > 1
\* whose last row produces less than was available to the repeat, stitches
\* left over on one whose last row produces more, and neither on a RowRepeat
\* whose last row produces what was available or on the Pattern.
RepeatDrift ==
    Verified =>
        /\ ~DriftReported(node)
        /\ \A i \in DOMAIN node.rows :
              LET rep == node.rows[i]
              IN  (rep.k = "RowRepeat" /\ rep.times.value > 1) =>
                    /\ LastRow(rep).produces < StartOf(i)
                          <=> Reported("too few stitches", rep)
                    /\ LastRow(rep).produces > StartOf(i)
                          <=> Reported("stitches left over", rep)

\* A repeat that shrinks and a repeat that grows were both reported.
RepeatDriftWitness ==
    /\ Verified
    /\ diags.raised = "none"
    /\ \E i, j \in DOMAIN node.rows :
          /\ node.rows[i].k = "RowRepeat" /\ node.rows[i].times.value > 1
          /\ node.rows[j].k = "RowRepeat" /\ node.rows[j].times.value > 1
          /\ LastRow(node.rows[i]).produces < StartOf(i)
          /\ Reported("too few stitches", node.rows[i])
          /\ LastRow(node.rows[j]).produces > StartOf(j)
          /\ Reported("stitches left over", node.rows[j])

\* ---------------------------------------------------------------------------
\* C26: the unroll a block flattens its siblings with.

BlockMerged == stage = "merged" /\ prev.k = "Block"

\* The siblings of the block flattened with the given unroll.
SiblingsFlattened(unroll) ==
    [i \in DOMAIN prev.patterns |-> flatten(prev.patterns[i], unroll)]

\* The pattern has a row repeat among its rows.
NestedRepeat(p) == \E i \in DOMAIN p.rows : p.rows[i].k = "RowRepeat"

\* C26: _flatten of a block flattens every sibling with unroll = true,
\* whatever unroll the block is flattened with: what it returns is the merge
\* of siblings none of which has a row repeat left.
ForcedUnroll ==
    BlockMerged =>
        /\ node = merge_across(SiblingsFlattened(TRUE))
        /\ \A i \in DOMAIN prev.patterns :
              ~NestedRepeat(SiblingsFlattened(TRUE)[i])

\* C26 as settled: _flatten of a block flattens every sibling with the unroll
\* the block is flattened with, so a sibling with a row repeat worked more
\* than once is handed to _merge_across with that row repeat.
PassedUnroll ==
    BlockMerged =>
        /\ node = merge_across(SiblingsFlattened(FALSE))
        /\ \A i \in DOMAIN prev.patterns :
              (\E r \in DOMAIN prev.patterns[i].rows :
                    /\ prev.patterns[i].rows[r].k = "RowRepeat"
                    /\ prev.patterns[i].rows[r].times.value > 1)
                  => NestedRepeat(SiblingsFlattened(FALSE)[i])

\* Two siblings that each are a row repeat worked twice, merged into a row
\* repeat worked twice.
PassedUnrollWitness ==
    /\ BlockMerged
    /\ \A i \in DOMAIN prev.patterns :
          /\ Len(prev.patterns[i].rows) = 1
          /\ prev.patterns[i].rows[1].k = "RowRepeat"
          /\ prev.patterns[i].rows[1].times.value = 2
          /\ NestedRepeat(SiblingsFlattened(FALSE)[i])
    /\ NestedRepeat(node)
    /\ node.rows[1].times.value = 2

-----------------------------------------------------------------------------
(* A block of two sibling patterns flattened and counted again *)

\* First rows of a sibling: counted with nothing known about what is
\* available, so without expanding repeats.
HeadRows ==
    {RawRow(stitches, side) :
        stitches \in {<<StitchLit("K"), StitchLit("P")>>,
                      <<StitchLit("KFB")>>,
                      <<StitchLit("K2TOG"), StitchLit("K")>>,
                      <<RawFix(<<StitchLit("P")>>, 3)>>},
        side \in {"None", "WS"}}

\* Second rows: counted with what the first row produced.
TailRows ==
    {RawRow(stitches, side) :
        stitches \in {<<ToEnd("K")>>,
                      <<StitchLit("P"), RawExp(<<StitchLit("K")>>, 1)>>,
                      <<ToEnd("K"), StitchLit("P")>>,
                      <<RawExp(<<StitchLit("K"), StitchLit("P")>>, 0)>>,
                      <<StitchLit("K2TOG"), ToEnd("P")>>,
                      <<RawFix(<<StitchLit("K"), ToEnd("P")>>, 1)>>},
        side \in {"None", "RS"}}

BlockPatterns ==
    {RawPattern(rows) :
        rows \in {<<h>> : h \in HeadRows}
                 \cup {<<h, t>> : h \in HeadRows, t \in TailRows}}

\* prepare_pattern up to _flatten: sides inferred, stitches counted.
SidedBlocks ==
    {b \in {infer_counts(infer_sides(RawBlock(<<x, y>>), "RS"), None) :
                x \in BlockPatterns, y \in BlockPatterns} : ~IsErr(b)}

InitBlock ==
    /\ stage = "counted"
    /\ node \in SidedBlocks
    /\ prev = node
    /\ arg = node
    /\ diags = NoErrors

FlattenBlock ==
    /\ stage = "counted"
    /\ Ran(flatten(node, FALSE), "merged")

RecountBlock ==
    /\ stage = "merged"
    /\ Ran(infer_counts(node, None), "recounted")

NextBlock == FlattenBlock \/ RecountBlock

SpecBlock == InitBlock /\ [][NextBlock]_vars

SiblingsAt(r) == [i \in DOMAIN arg.patterns |-> arg.patterns[i].rows[r]]

\* The siblings' rows at one position in reading order, each turned to the
\* side of the first.
TurnedAt(r) ==
    LET given == SiblingsAt(r)
        ordered == IF given[1].side = "RS" THEN Reversed(given) ELSE given
    IN  [i \in DOMAIN ordered |->
            IF ordered[i].side # given[1].side
            THEN reverse(ordered[i], 0) ELSE ordered[i]]

\* What each expanding repeat of a node consumes, outermost first.
RECURSIVE Expansions(_)
Expansions(n) ==
    LET inside ==
            Concat([i \in DOMAIN n.stitches |-> Expansions(n.stitches[i])])
    IN  CASE n.k = "ExpandingStitchRepeat" -> <<n.consumes>> \o inside
          [] n.k \in {"FixedStitchRepeat", "Row"} -> inside
          [] OTHER -> <<>>

\* Each row of a sibling consumes exactly what the row before it produced.
CountConsistent(p) ==
    /\ \A r \in DOMAIN p.rows : p.rows[r].k = "Row"
    /\ \A r \in 2..Len(p.rows) : p.rows[r].consumes = p.rows[r - 1].produces

SameRowStructure ==
    \A i \in DOMAIN arg.patterns :
        Len(arg.patterns[i].rows) = Len(arg.patterns[1].rows)

ConsistentSiblings ==
    /\ \A i \in DOMAIN arg.patterns : CountConsistent(arg.patterns[i])
    /\ SameRowStructure

\* C27: when every sibling of a block is count-consistent and the siblings
\* have the same row structure, _flatten and the infer_counts after it give
\* rows whose consumes and produces are the sums over the siblings' rows at
\* the same position, whose expanding repeats consume what they consumed
\* inside their own sibling, and for which verify_counts yields nothing.
MergeConsistent ==
    (stage \in {"merged", "recounted"} /\ ConsistentSiblings) =>
        /\ ~IsErr(node)
        /\ stage = "recounted" =>
            /\ Len(node.rows) = Len(arg.patterns[1].rows)
            /\ \A r \in DOMAIN node.rows :
                /\ node.rows[r].consumes =
                      SumSeq([i \in DOMAIN SiblingsAt(r) |->
                                 SiblingsAt(r)[i].consumes])
                /\ node.rows[r].produces =
                      SumSeq([i \in DOMAIN SiblingsAt(r) |->
                                 SiblingsAt(r)[i].produces])
                /\ Expansions(node.rows[r]) =
                      Concat([i \in DOMAIN TurnedAt(r) |->
                                 Expansions(TurnedAt(r)[i])])
            /\ verify_counts(node, node.rows[1].consumes) = NoErrors

Availables == 0..MaxAvailable

\* verify_counts yields nothing and ends for the row with this much
\* available.
Accepted(row, available) == verify_counts(row, available) = NoErrors

\* The counts of the row are those infer_counts gives with this much
\* available.
CountedWith(row, available) == infer_counts(row, available) = row

\* C28: for a row of reversible stitches counted with some available that
\* verify_counts accepts for it, _reverse(row, 0) has the row's consumes and
\* produces and verify_counts accepts it for the same available.
ReversalKeepsCounts ==
    (stage = "reversed" /\ ~IsErr(node)) =>
        \A available \in Availables :
            (CountedWith(prev, available) /\ Accepted(prev, available)) =>
                /\ node.consumes = prev.consumes
                /\ node.produces = prev.produces
                /\ Accepted(node, available)

\* The rows a node stands for, in the order they are knitted: row repeats
\* iterated times over, each row as _unroll_row lists its stitches.
RECURSIVE Knitting(_)
Knitting(n) ==
    LET once == Concat([i \in DOMAIN n.rows |-> Knitting(n.rows[i])])
    IN  CASE n.k = "Row" -> <<unroll_row(n)>>
          [] n.k = "RowRepeat" -> RepeatSeq(once, n.times.value)
          [] n.k = "Pattern" -> once
          [] OTHER -> <<>>

\* _flatten has been applied: it returned, or it raised.
Flattened ==
    stage \in {"flattened", "flattened twice", "unrolled"} \/ IsErr(node)

\* C29: for a counted pattern without blocks, with unroll false and with
\* unroll true, _flatten returns a pattern that stands for the same rows of
\* the same stitches in the same order, and count_rows of it is unchanged.
FlattenKeepsKnitting ==
    Flattened =>
        /\ ~IsErr(node)
        /\ ~IsErr(node) =>
            /\ Knitting(node) = Knitting(prev)
            /\ count_rows(node) = count_rows(prev)

\* The stitches _verify_psso walks over for the one row of the pattern.
Walked ==
    Concat([i \in DOMAIN unroll_row(node.rows[1]).rows |->
                unroll_slip(unroll_row(node.rows[1]).rows[i])])

PassOvers == {i \in DOMAIN Walked : Walked[i] = "PSSO"}

\* C30: for a row whose first stitch is a PSSO, the first diagnostic of
\* _verify_psso is 'PSSO without SLIP', 'PSSO without stitch to pass over'
\* is not reported for that PSSO whatever the last stitch of the row is, and
\* when the row has no other PSSO that one diagnostic is all.
PssoAtStart ==
    (Verified /\ Walked # <<>> /\ Walked[1] = "PSSO") =>
        /\ diags.raised = "none"
        /\ diags.errors # <<>>
        /\ diags.errors[1] = KnitError("PSSO without SLIP", node.rows[1])
        /\ PassOvers = {1} =>
              diags.errors = <<KnitError("PSSO without SLIP", node.rows[1])>>

====
